---- MODULE Spec2Model ----
(***************************************************************************)
(* Verification model of javaspectre-edge's excavation core.               *)
(*                                                                         *)
(*   Spec        the session ledger: ExcavationSessionManager together     *)
(*               with the SQLite-backed Persistence collaborator           *)
(*   SpecEngine  MultiPassEngine.run, stepped through its callback calls   *)
(*   SpecExcavator  VirtualObjectExcavator.excavate on JSON-like values    *)
(*   SpecScore   VirtualObjectScoreEngine.scoreSnapshot on two engines     *)
(***************************************************************************)
EXTENDS Integers, Sequences, FiniteSets, TLC

VARIABLES
    maxSnapshots,    \* ExcavationSessionManager.maxSnapshots
    hasPersistence,  \* whether options.persistence was supplied
    sessions,        \* ExcavationSessionManager.sessions (a Map: id -> session)
    db,              \* the catalog database behind Persistence
    last,            \* the most recent call on the manager and how it ended
    hist,            \* per live session: how it started and what was added to it
    nAdds,           \* addSnapshot calls made on known sessions
    nFaults,         \* faults the persistence collaborator has met
    restarted,       \* whether this is a later run on the catalog of an earlier one
    engine,          \* MultiPassEngine.maxDeepRegions
    run,             \* the position and locals of one MultiPassEngine.run call
    nextId,          \* the module-level id counter of VirtualObjectExcavator.js
    excavation,      \* the most recent excavate call: instance, input, result
    emitted,         \* the instances used and the ids issued by the calls so far
    nExcavations,    \* excavate calls made
    scorers,         \* the VirtualObjectScoreEngine instances of the process
    scoring,         \* the most recent scoreSnapshot call and what it did
    observed,        \* every observation recorded so far, by any instance
    nScoreCalls,     \* scoreSnapshot calls made
    client,          \* StreamGuard.client: the MQTT client and its connected flag
    feeds,           \* per feed: the file's text, how much was read, the line buffer
    voEvents,        \* the 'vo-event' emissions so far, in order
    published,       \* the payloads handed to client.publish so far, in order
    uncaught         \* whether an exception left a data handler

vars == <<maxSnapshots, hasPersistence, sessions, db, last, hist, nAdds,
          nFaults, restarted, engine, run, nextId, excavation, emitted,
          nExcavations, scorers, scoring, observed, nScoreCalls, client,
          feeds, voEvents, published, uncaught>>

sessionVars == <<maxSnapshots, hasPersistence, sessions, db, last, hist,
                 nAdds, nFaults, restarted>>

engineVars == <<engine, run>>

excavatorVars == <<nextId, excavation, emitted, nExcavations>>

scoreVars == <<scorers, scoring, observed, nScoreCalls>>

guardVars == <<client, feeds, voEvents, published, uncaught>>

(***************************************************************************)
(* Bounds of the model.                                                    *)
(***************************************************************************)
MaxSnapshotsBound == 2
MaxAdds == 3
MaxFaults == 1

SessionIds == {"s1", "s2"}

\* An optional value: <<>> when absent (undefined), <<v>> when present.
None == <<>>
Some(v) == <<v>>

\* ExcavationResults.  ResultA and ResultB have the same list lengths for
\* virtualObjects and relationships but different contents and a different
\* number of domSheets; ResultC differs from ResultA in the number of
\* relationships only and has no domSheets list at all.
ResultA == [virtualObjects |-> <<"a", "b">>, relationships |-> <<"r">>,
            domSheets |-> Some(<<>>)]
ResultB == [virtualObjects |-> <<"b", "c">>, relationships |-> <<"q">>,
            domSheets |-> Some(<<"d">>)]
ResultC == [virtualObjects |-> <<"a", "b">>, relationships |-> <<>>,
            domSheets |-> None]

\* The calls made on the manager: the arguments of startSession and of
\* addSnapshot, each with the reading of the wall clock (new Date()) the
\* call takes.  The clock may stand still or step back between two calls.
\* Session "s2" is the bystander of the calls made on "s1".
StartCalls ==
    { [sid |-> "s1", metadata |-> "m1", now |-> 0],
      [sid |-> "s1", metadata |-> "m2", now |-> 1],
      [sid |-> "s2", metadata |-> "m1", now |-> 1] }

AddCalls ==
    { [sid |-> "s1", result |-> ResultA, label |-> "default", now |-> 0],
      [sid |-> "s1", result |-> ResultB, label |-> "deep",    now |-> 1],
      [sid |-> "s1", result |-> ResultC, label |-> "default", now |-> 0],
      [sid |-> "s2", result |-> ResultB, label |-> "default", now |-> 0] }

\* The points at which the persistence collaborator may throw (a closed or
\* locked database, a full disk); "none" is the undisturbed call.
Faults == {"none", "saveSession.insert", "saveSession.update",
           "hydrateSessionSnapshots", "saveSnapshot"}

Abs(x) == IF x < 0 THEN -x ELSE x
Min(a, b) == IF a < b THEN a ELSE b

RECURSIVE SumOver(_, _)
\* sum of f[i] for i in 1..n
SumOver(f, n) == IF n = 0 THEN 0 ELSE f[n] + SumOver(f, n - 1)

\* JSON.stringify / JSON.parse on the JSON-safe values of this model
\* (numbers, strings, lists and records of them; an undefined member is
\* dropped on the way out and is absent on the way back).
JSONstringify(v) == [json |-> v]
JSONparse(s) == s.json

(***************************************************************************)
(* Array.prototype operations used by the code.                            *)
(***************************************************************************)
\* arr.push(x)
Push(arr, x) == Append(arr, x)
\* arr.shift(): drops the first element (no-op on an empty array)
Shift(arr) == IF arr = <<>> THEN <<>> ELSE Tail(arr)
\* arr.slice(0, end) with JavaScript's handling of a negative or large end
Slice0(arr, end) ==
    LET n == Len(arr)
        k == IF end < 0 THEN (IF n + end < 0 THEN 0 ELSE n + end)
             ELSE Min(end, n)
    IN  SubSeq(arr, 1, k)

(***************************************************************************)
(* Persistence (src/src/core/Persistence.js over db/schema.sql).           *)
(* Each operation yields [ok, db]: ok = FALSE is a thrown error.           *)
(***************************************************************************)
EmptyDb == [sessions |-> <<>>, snapshots |-> <<>>]

\* rows of table sessions whose primary key is sid
SessionRowExists(d, sid) == \E i \in 1..Len(d.sessions) : d.sessions[i].session_id = sid

\* rows of table snapshots whose primary key is id
SnapshotRowExists(d, id) == \E i \in 1..Len(d.snapshots) : d.snapshots[i].snapshot_id = id

\* insertSessionStmt: INSERT OR IGNORE INTO sessions
InsertSession(d, payload) ==
    IF SessionRowExists(d, payload.session_id) THEN d
    ELSE [d EXCEPT !.sessions =
            Append(@, [session_id |-> payload.session_id,
                       created_at_iso |-> payload.created_at_iso,
                       metadata_json |-> payload.metadata_json])]

\* updateSessionMetadataStmt: UPDATE sessions SET metadata_json WHERE session_id
UpdateSessionMetadata(d, payload) ==
    [d EXCEPT !.sessions =
        [i \in 1..Len(d.sessions) |->
            IF d.sessions[i].session_id = payload.session_id
            THEN [d.sessions[i] EXCEPT !.metadata_json = payload.metadata_json]
            ELSE d.sessions[i]]]

\* Persistence.saveSession
SaveSession(d, session, fault) ==
    LET payload == [session_id |-> session.id,
                    created_at_iso |-> session.createdAt,
                    metadata_json |-> JSONstringify(session.metadata)]
        d1 == InsertSession(d, payload)
    IN  IF fault = "saveSession.insert" THEN [ok |-> FALSE, db |-> d]
        ELSE IF fault = "saveSession.update" THEN [ok |-> FALSE, db |-> d1]
        ELSE [ok |-> TRUE, db |-> UpdateSessionMetadata(d1, payload)]

\* Persistence.saveSnapshot: INSERT INTO snapshots.  The insert is rejected
\* when snapshot_id repeats (PRIMARY KEY) or when session_id names no row of
\* sessions (FOREIGN KEY, foreign_keys = ON).
SaveSnapshot(d, sessionId, snapshot, fault) ==
    LET payload == [snapshot_id |-> snapshot.id,
                    session_id |-> sessionId,
                    label |-> snapshot.label,
                    captured_at_iso |-> snapshot.capturedAt,
                    metrics_json |-> JSONstringify(snapshot.metrics),
                    result_json |-> JSONstringify(snapshot.result)]
    IN  IF \/ fault = "saveSnapshot"
           \/ SnapshotRowExists(d, payload.snapshot_id)
           \/ ~SessionRowExists(d, payload.session_id)
        THEN [ok |-> FALSE, db |-> d]
        ELSE [ok |-> TRUE, db |-> [d EXCEPT !.snapshots = Append(@, payload)]]

\* indices (in rowid order) of the snapshot rows of one session
RowsOf(d, sid) == {i \in 1..Len(d.snapshots) : d.snapshots[i].session_id = sid}

\* loadSessionSnapshotsStmt: SELECT ... WHERE session_id = ? ORDER BY
\* captured_at_iso ASC.  Every order of the session's rows that is ascending
\* in captured_at_iso is a possible answer: SQL leaves the order of rows
\* with equal timestamps open.
LoadSessionSnapshots(d, sid) ==
    LET idx == RowsOf(d, sid)
        n == Cardinality(idx)
    IN  { [k \in 1..n |-> d.snapshots[p[k]]] :
            p \in { q \in [1..n -> idx] :
                      /\ \A a, b \in 1..n : a # b => q[a] # q[b]
                      /\ \A a, b \in 1..n : a < b =>
                            d.snapshots[q[a]].captured_at_iso
                              <= d.snapshots[q[b]].captured_at_iso } }

\* Persistence.hydrateSessionSnapshots, given the rows the query returned:
\* every row is pushed onto session.snapshots.
HydrateSessionSnapshots(session, rows) ==
    [session EXCEPT !.snapshots =
        @ \o [k \in 1..Len(rows) |->
                [id |-> rows[k].snapshot_id,
                 label |-> rows[k].label,
                 capturedAt |-> rows[k].captured_at_iso,
                 metrics |-> JSONparse(rows[k].metrics_json),
                 result |-> JSONparse(rows[k].result_json)]]]

(***************************************************************************)
(* ExcavationSessionManager (src/unnamed/part_000, lines 116-263).         *)
(***************************************************************************)
\* this.sessions.has(sessionId)
HasSession(sid) == sid \in DOMAIN sessions

\* this.sessions.set(sessionId, session)
SessionsSet(map, sid, session) ==
    [x \in (DOMAIN map) \cup {sid} |-> IF x = sid THEN session ELSE map[x]]

\* the session object literal of startSession
NewSession(sid, metadata, now) ==
    [id |-> sid,
     createdAt |-> now,
     metadata |-> metadata,
     snapshots |-> <<>>,
     summary |-> [totalVirtualObjects |-> 0,
                  totalRelationships |-> 0,
                  domSheets |-> 0,
                  driftEvents |-> 0]]

\* the metrics member of the snapshot literal of addSnapshot
MetricsOf(excavationResult) ==
    [virtualObjects |-> Len(excavationResult.virtualObjects),
     relationships |-> Len(excavationResult.relationships),
     domSheets |-> IF excavationResult.domSheets # None
                   THEN Len(excavationResult.domSheets[1])
                   ELSE 0]

\* the snapshot id `${sessionId}:${session.snapshots.length}`, kept as a pair
SnapshotId(sid, session) == <<sid, Len(session.snapshots)>>

\* the snapshot object literal of addSnapshot
NewSnapshot(sid, session, excavationResult, label, now) ==
    [id |-> SnapshotId(sid, session),
     label |-> label,
     capturedAt |-> now,
     metrics |-> MetricsOf(excavationResult),
     result |-> excavationResult]

\* PushEvict with pop() in the place of shift(): the newest entry is evicted
PushEvictNewest(session, snapshot) ==
    LET pushed == Push(session.snapshots, snapshot)
    IN  [session EXCEPT !.snapshots =
            IF Len(pushed) > maxSnapshots
            THEN SubSeq(pushed, 1, Len(pushed) - 1)
            ELSE pushed]

\* PushEvict giving the snapshots that remain after shift() the ids of their
\* new positions
PushEvictRenumbered(session, snapshot) ==
    LET pushed == Push(session.snapshots, snapshot)
        shifted == Shift(pushed)
    IN  [session EXCEPT !.snapshots =
            IF Len(pushed) > maxSnapshots
            THEN [i \in 1..Len(shifted) |->
                    [shifted[i] EXCEPT !.id = <<session.id, i - 1>>]]
            ELSE pushed]

\* PushEvict with the two statements exchanged: shift() if the log is over
\* capacity, then push(snapshot)
PushEvictShiftFirst(session, snapshot) ==
    LET shifted == IF Len(session.snapshots) > maxSnapshots
                   THEN Shift(session.snapshots)
                   ELSE session.snapshots
    IN  [session EXCEPT !.snapshots = Push(shifted, snapshot)]

\* session.snapshots.push(snapshot); if (length > maxSnapshots) shift()
PushEvict(session, snapshot) ==
    LET pushed == Push(session.snapshots, snapshot)
    IN  [session EXCEPT !.snapshots =
            IF Len(pushed) > maxSnapshots THEN Shift(pushed) ELSE pushed]

\* UpdateSummary as a running total: the newest snapshot's metrics are added
\* to the totals already in the summary
UpdateSummaryRunning(session) ==
    LET n == Len(session.snapshots)
        m == IF n = 0 THEN [virtualObjects |-> 0, relationships |-> 0, domSheets |-> 0]
             ELSE session.snapshots[n].metrics
    IN  [session EXCEPT
            !.summary.totalVirtualObjects = @ + m.virtualObjects,
            !.summary.totalRelationships = @ + m.relationships,
            !.summary.domSheets = @ + m.domSheets]

\* _updateSummary
UpdateSummary(session) ==
    LET snaps == session.snapshots
        n == Len(snaps)
    IN  [session EXCEPT
            !.summary.totalVirtualObjects =
                SumOver([i \in 1..n |-> snaps[i].metrics.virtualObjects], n),
            !.summary.totalRelationships =
                SumOver([i \in 1..n |-> snaps[i].metrics.relationships], n),
            !.summary.domSheets =
                SumOver([i \in 1..n |-> snaps[i].metrics.domSheets], n)]

\* DriftScore comparing the results themselves instead of their counts
DriftScoreByContent(latest, prev) ==
    IF latest.result = prev.result THEN 0 ELSE 1

\* driftScore of _detectDrift for the two most recent snapshots
DriftScore(latest, prev) ==
    Abs(latest.metrics.virtualObjects - prev.metrics.virtualObjects)
      + Abs(latest.metrics.relationships - prev.metrics.relationships)

\* _detectDrift
DetectDrift(session) ==
    LET n == Len(session.snapshots)
    IN  IF n < 2 THEN session
        ELSE IF DriftScore(session.snapshots[n], session.snapshots[n - 1]) > 0
             THEN [session EXCEPT !.summary.driftEvents = @ + 1]
             ELSE session

\* SummaryView listing the snapshots newest first
SummaryViewNewestFirst(session) ==
    LET n == Len(session.snapshots)
    IN  [id |-> session.id,
         createdAt |-> session.createdAt,
         metadata |-> session.metadata,
         summary |-> session.summary,
         snapshots |-> [i \in 1..n |->
                          [id |-> session.snapshots[n + 1 - i].id,
                           label |-> session.snapshots[n + 1 - i].label,
                           capturedAt |-> session.snapshots[n + 1 - i].capturedAt,
                           metrics |-> session.snapshots[n + 1 - i].metrics]]]

\* the projection getSessionSummary returns
SummaryView(session) ==
    [id |-> session.id,
     createdAt |-> session.createdAt,
     metadata |-> session.metadata,
     summary |-> session.summary,
     snapshots |-> [i \in 1..Len(session.snapshots) |->
                      [id |-> session.snapshots[i].id,
                       label |-> session.snapshots[i].label,
                       capturedAt |-> session.snapshots[i].capturedAt,
                       metrics |-> session.snapshots[i].metrics]]]

\* one entry of the list listSessions returns
ListEntry(session) ==
    [id |-> session.id,
     createdAt |-> session.createdAt,
     metadata |-> session.metadata,
     summary |-> session.summary]

\* what a call leaves in `last`: the operation, its session id, the
\* arguments the session does not show by itself (startSession's metadata),
\* how it ended, what it returned, and the persistence calls and the
\* registration it made, in order
Call(op, sid, args, outcome, ret, trace) ==
    [op |-> op, sid |-> sid, args |-> args, outcome |-> outcome, ret |-> ret,
     trace |-> trace]

NoCall == Call("none", "", <<>>, "ok", None, <<>>)

\* what `hist` keeps for a session registered by startSession
NewHist(session) ==
    [startedEmpty |-> session.snapshots = <<>>,
     clean |-> TRUE,
     added |-> <<>>]

(***************************************************************************)
(* The operations of the manager, one action per call.                     *)
(***************************************************************************)
\* A call meets the fault `fault` only at a point it reaches (`reached`),
\* and the catalog meets at most MaxFaults faults in all.
Injected(fault, points, reached) ==
    IF fault \in points /\ reached
    THEN nFaults < MaxFaults /\ nFaults' = nFaults + 1
    ELSE fault = "none" /\ nFaults' = nFaults

\* ReturnExisting refreshing the metadata of the session it returns
ReturnExistingRefreshed(sid, metadata) ==
    LET refreshed == [sessions[sid] EXCEPT !.metadata = metadata]
    IN  /\ sessions' = [sessions EXCEPT ![sid] = refreshed]
        /\ last' = Call("startSession", sid, <<metadata>>, "existing",
                        Some(refreshed), <<>>)
        /\ UNCHANGED <<db, hist>>

\* startSession when this.sessions.has(sessionId): the session is returned
ReturnExisting(sid, metadata) ==
    /\ last' = Call("startSession", sid, <<metadata>>, "existing",
                    Some(sessions[sid]), <<>>)
    /\ UNCHANGED <<sessions, db, hist>>

\* CreateSession with this.sessions.set moved in front of the persistence
\* calls: the session stays registered when one of them throws
CreateSessionRegisteredFirst(sid, metadata, now, fault) ==
    LET session == NewSession(sid, metadata, now)
        saved == SaveSession(db, session, fault)
    IN  IF ~hasPersistence THEN
          /\ sessions' = SessionsSet(sessions, sid, session)
          /\ hist' = SessionsSet(hist, sid, NewHist(session))
          /\ last' = Call("startSession", sid, <<metadata>>, "created",
                          Some(session), <<"sessions.set">>)
          /\ UNCHANGED db
        ELSE IF ~saved.ok \/ fault = "hydrateSessionSnapshots" THEN
          /\ db' = saved.db
          /\ sessions' = SessionsSet(sessions, sid, session)
          /\ hist' = SessionsSet(hist, sid, NewHist(session))
          /\ last' = Call("startSession", sid, <<metadata>>, "persistence-error",
                          None, <<"sessions.set", "saveSession">>)
        ELSE
          \E rows \in LoadSessionSnapshots(saved.db, sid) :
             LET hydrated == UpdateSummary(HydrateSessionSnapshots(session, rows))
             IN  /\ db' = saved.db
                 /\ sessions' = SessionsSet(sessions, sid, hydrated)
                 /\ hist' = SessionsSet(hist, sid, NewHist(hydrated))
                 /\ last' = Call("startSession", sid, <<metadata>>, "created",
                                 Some(hydrated),
                                 <<"sessions.set", "saveSession",
                                   "hydrateSessionSnapshots">>)

\* startSession for an id not in the map: the session literal, the two
\* persistence calls and _updateSummary if a collaborator was supplied, then
\* this.sessions.set
CreateSession(sid, metadata, now, fault) ==
    LET session == NewSession(sid, metadata, now)
        saved == SaveSession(db, session, fault)
    IN  IF ~hasPersistence THEN
          /\ sessions' = SessionsSet(sessions, sid, session)
          /\ hist' = SessionsSet(hist, sid, NewHist(session))
          /\ last' = Call("startSession", sid, <<metadata>>, "created",
                          Some(session), <<"sessions.set">>)
          /\ UNCHANGED db
        ELSE IF ~saved.ok THEN
          /\ db' = saved.db
          /\ last' = Call("startSession", sid, <<metadata>>, "persistence-error",
                          None, <<"saveSession">>)
          /\ UNCHANGED <<sessions, hist>>
        ELSE IF fault = "hydrateSessionSnapshots" THEN
          /\ db' = saved.db
          /\ last' = Call("startSession", sid, <<metadata>>, "persistence-error",
                          None, <<"saveSession", "hydrateSessionSnapshots">>)
          /\ UNCHANGED <<sessions, hist>>
        ELSE
          \E rows \in LoadSessionSnapshots(saved.db, sid) :
             LET hydrated == UpdateSummary(HydrateSessionSnapshots(session, rows))
             IN  /\ db' = saved.db
                 /\ sessions' = SessionsSet(sessions, sid, hydrated)
                 /\ hist' = SessionsSet(hist, sid, NewHist(hydrated))
                 /\ last' = Call("startSession", sid, <<metadata>>, "created",
                                 Some(hydrated),
                                 <<"saveSession", "hydrateSessionSnapshots",
                                   "sessions.set">>)

\* StartSession without the test this.sessions.has(sessionId): every call
\* builds and registers a new session
StartSessionReplacing(sid, metadata, now, fault) ==
    /\ UNCHANGED <<maxSnapshots, hasPersistence, nAdds, restarted, engineVars,
                   excavatorVars, scoreVars, guardVars>>
    /\ Injected(fault, {"saveSession.insert", "saveSession.update",
                        "hydrateSessionSnapshots"},
                hasPersistence)
    /\ CreateSession(sid, metadata, now, fault)

\* startSession(sessionId, metadata), with the clock reading `now` and the
\* fault the persistence collaborator meets during the call
StartSession(sid, metadata, now, fault) ==
    /\ UNCHANGED <<maxSnapshots, hasPersistence, nAdds, restarted, engineVars,
                   excavatorVars, scoreVars, guardVars>>
    /\ Injected(fault, {"saveSession.insert", "saveSession.update",
                        "hydrateSessionSnapshots"},
                ~HasSession(sid) /\ hasPersistence)
    /\ IF HasSession(sid)
       THEN ReturnExisting(sid, metadata)
       ELSE CreateSession(sid, metadata, now, fault)

\* AddSnapshot with one driftEvents counter for all sessions of the manager
AddSnapshotSharedDrift(sid, excavationResult, label, now, fault) ==
    /\ UNCHANGED <<maxSnapshots, hasPersistence, restarted, engineVars,
                   excavatorVars, scoreVars, guardVars>>
    /\ Injected(fault, {"saveSnapshot"}, HasSession(sid) /\ hasPersistence)
    /\ IF ~HasSession(sid) THEN
          /\ last' = Call("addSnapshot", sid, <<>>, "unknown-session", None, <<>>)
          /\ UNCHANGED <<sessions, db, hist, nAdds>>
       ELSE
          LET session == sessions[sid]
              snapshot == NewSnapshot(sid, session, excavationResult, label, now)
              updated == DetectDrift(UpdateSummary(PushEvict(session, snapshot)))
              saved == SaveSnapshot(db, sid, snapshot, fault)
          IN  /\ nAdds < MaxAdds
              /\ nAdds' = nAdds + 1
              /\ sessions' =
                    [x \in DOMAIN sessions |->
                        IF x = sid THEN updated
                        ELSE [sessions[x] EXCEPT !.summary.driftEvents =
                                                    updated.summary.driftEvents]]
              /\ IF ~hasPersistence THEN
                    /\ last' = Call("addSnapshot", sid, <<>>, "ok", Some(snapshot), <<>>)
                    /\ hist' = [hist EXCEPT ![sid].added = Append(@, snapshot)]
                    /\ UNCHANGED db
                 ELSE IF saved.ok THEN
                    /\ last' = Call("addSnapshot", sid, <<>>, "ok", Some(snapshot),
                                    <<"saveSnapshot">>)
                    /\ hist' = [hist EXCEPT ![sid].added = Append(@, snapshot)]
                    /\ db' = saved.db
                 ELSE
                    /\ last' = Call("addSnapshot", sid, <<>>, "persistence-error", None,
                                    <<"saveSnapshot">>)
                    /\ hist' = [hist EXCEPT ![sid].clean = FALSE]
                    /\ db' = saved.db

\* addSnapshot(sessionId, excavationResult, label)
AddSnapshot(sid, excavationResult, label, now, fault) ==
    /\ UNCHANGED <<maxSnapshots, hasPersistence, restarted, engineVars,
                   excavatorVars, scoreVars, guardVars>>
    /\ Injected(fault, {"saveSnapshot"}, HasSession(sid) /\ hasPersistence)
    /\ IF ~HasSession(sid) THEN
          /\ last' = Call("addSnapshot", sid, <<>>, "unknown-session", None, <<>>)
          /\ UNCHANGED <<sessions, db, hist, nAdds>>
       ELSE
          LET session == sessions[sid]
              snapshot == NewSnapshot(sid, session, excavationResult, label, now)
              updated == DetectDrift(UpdateSummary(PushEvict(session, snapshot)))
              saved == SaveSnapshot(db, sid, snapshot, fault)
          IN  /\ nAdds < MaxAdds
              /\ nAdds' = nAdds + 1
              /\ sessions' = [sessions EXCEPT ![sid] = updated]
              /\ IF ~hasPersistence THEN
                    /\ last' = Call("addSnapshot", sid, <<>>, "ok", Some(snapshot), <<>>)
                    /\ hist' = [hist EXCEPT ![sid].added = Append(@, snapshot)]
                    /\ UNCHANGED db
                 ELSE IF saved.ok THEN
                    /\ last' = Call("addSnapshot", sid, <<>>, "ok", Some(snapshot),
                                    <<"saveSnapshot">>)
                    /\ hist' = [hist EXCEPT ![sid].added = Append(@, snapshot)]
                    /\ db' = saved.db
                 ELSE
                    /\ last' = Call("addSnapshot", sid, <<>>, "persistence-error", None,
                                    <<"saveSnapshot">>)
                    /\ hist' = [hist EXCEPT ![sid].clean = FALSE]
                    /\ db' = saved.db

\* GetSessionSummary answering an unknown id with an empty projection
GetSessionSummaryLenient(sid) ==
    /\ UNCHANGED <<maxSnapshots, hasPersistence, sessions, db, hist, nAdds,
                   nFaults, restarted, engineVars,
                   excavatorVars, scoreVars, guardVars>>
    /\ IF ~HasSession(sid)
       THEN last' = Call("getSessionSummary", sid, <<>>, "ok", None, <<>>)
       ELSE last' = Call("getSessionSummary", sid, <<>>, "ok",
                         Some(SummaryView(sessions[sid])), <<>>)

\* getSessionSummary(sessionId)
GetSessionSummary(sid) ==
    /\ UNCHANGED <<maxSnapshots, hasPersistence, sessions, db, hist, nAdds,
                   nFaults, restarted, engineVars,
                   excavatorVars, scoreVars, guardVars>>
    /\ IF ~HasSession(sid)
       THEN last' = Call("getSessionSummary", sid, <<>>, "unknown-session", None, <<>>)
       ELSE last' = Call("getSessionSummary", sid, <<>>, "ok",
                         Some(SummaryView(sessions[sid])), <<>>)

\* the list listSessions builds, one push per value of this.sessions; the
\* list is kept as the bag of its entries (how often each entry occurs)
ListOf(map) ==
    [entry \in {ListEntry(map[sid]) : sid \in DOMAIN map} |->
        Cardinality({sid \in DOMAIN map : ListEntry(map[sid]) = entry})]

\* listSessions()
ListSessions ==
    /\ UNCHANGED <<maxSnapshots, hasPersistence, sessions, db, hist, nAdds,
                   nFaults, restarted, engineVars,
                   excavatorVars, scoreVars, guardVars>>
    /\ last' = Call("listSessions", "", <<>>, "ok", Some(ListOf(sessions)), <<>>)

\* A later run: a new ExcavationSessionManager is constructed with the same
\* options on the same catalog database (the session map starts empty).
Restart ==
    /\ ~restarted
    /\ hasPersistence
    /\ restarted' = TRUE
    /\ sessions' = <<>>
    /\ hist' = <<>>
    /\ last' = NoCall
    /\ UNCHANGED <<maxSnapshots, hasPersistence, db, nAdds, nFaults, engineVars,
                   excavatorVars, scoreVars, guardVars>>

(***************************************************************************)
(* MultiPassEngine (src/src/inference/MultiPassEngine.js).                 *)
(* run() is followed through its calls into shallowFn, regionSelector and  *)
(* deepFn: run.pc names the callback the engine is inside of, and run.log  *)
(* lists every call made, return received and error thrown so far.        *)
(***************************************************************************)
MaxRegions == 3
MaxDeepRegions == 3

Regions == {"r1", "r2"}
ShallowValues == {"sh1", "sh2"}
DeepValues == {"dp1", "dp2"}

\* the region lists a regionSelector may return
RegionLists == UNION { [1..n -> Regions] : n \in 0..MaxRegions }

\* the values of options.maxDeepRegions, a negative one among them
DeepRegionCaps == -1..MaxDeepRegions

EngineIdle == [maxDeepRegions |-> 16]
RunIdle ==
    [pc |-> "idle",
     hasSelector |-> FALSE,
     shallowResult |-> None,
     regions |-> <<>>,
     selectedRegions |-> <<>>,
     deepResults |-> <<>>,
     log |-> <<>>,
     result |-> None,
     error |-> None]

CallEvent(fn, args) == [kind |-> "call", fn |-> fn, args |-> args]
ReturnEvent(fn, value) == [kind |-> "return", fn |-> fn, value |-> value]
ThrowEvent(fn) == [kind |-> "throw", fn |-> fn]

\* SelectedRegions without the slice: every region is retained
SelectedRegionsUncapped(regions) == regions

\* regions.slice(0, this.maxDeepRegions)
SelectedRegions(regions) == Slice0(regions, engine.maxDeepRegions)

\* run({input, shallowFn, deepFn, regionSelector}) is entered: shallowFn(input)
RunCall(hasSelector) ==
    /\ run.pc = "idle"
    /\ run' = [RunIdle EXCEPT !.pc = "shallowFn",
                               !.hasSelector = hasSelector,
                               !.log = <<CallEvent("shallowFn", <<"input">>)>>]
    /\ UNCHANGED <<engine, sessionVars, excavatorVars, scoreVars, guardVars>>

\* LoopFrom walking selectedRegions from its end to its front
LoopFromReversed(r, shallowResult, selected, deepResults, log) ==
    IF Len(deepResults) < Len(selected)
    THEN [r EXCEPT !.pc = "deepFn",
                   !.shallowResult = Some(shallowResult),
                   !.selectedRegions = selected,
                   !.deepResults = deepResults,
                   !.log = Append(log, CallEvent("deepFn",
                               <<"input", selected[Len(selected) - Len(deepResults)]>>))]
    ELSE [r EXCEPT !.pc = "done",
                   !.shallowResult = Some(shallowResult),
                   !.selectedRegions = selected,
                   !.deepResults = deepResults,
                   !.log = log,
                   !.result = Some([shallowResult |-> shallowResult,
                                    deepResults |-> deepResults])]

\* the for-of loop over selectedRegions, from the point where `done` entries
\* of deepResults exist: the next deepFn(input, region) call, or the return
\* of {shallowResult, deepResults}
LoopFrom(r, shallowResult, selected, deepResults, log) ==
    IF Len(deepResults) < Len(selected)
    THEN [r EXCEPT !.pc = "deepFn",
                   !.shallowResult = Some(shallowResult),
                   !.selectedRegions = selected,
                   !.deepResults = deepResults,
                   !.log = Append(log, CallEvent("deepFn",
                               <<"input", selected[Len(deepResults) + 1]>>))]
    ELSE [r EXCEPT !.pc = "done",
                   !.shallowResult = Some(shallowResult),
                   !.selectedRegions = selected,
                   !.deepResults = deepResults,
                   !.log = log,
                   !.result = Some([shallowResult |-> shallowResult,
                                    deepResults |-> deepResults])]

\* shallowFn returns: regionSelector(shallowResult) is called if supplied;
\* without it regions = [] and the loop runs over nothing
ShallowFnReturns(v) ==
    /\ run.pc = "shallowFn"
    /\ LET log == Append(run.log, ReturnEvent("shallowFn", v))
       IN  IF run.hasSelector
           THEN run' = [run EXCEPT !.pc = "regionSelector",
                                   !.shallowResult = Some(v),
                                   !.log = Append(log, CallEvent("regionSelector", <<v>>))]
           ELSE run' = LoopFrom(run, v, SelectedRegions(<<>>), <<>>, log)
    /\ UNCHANGED <<engine, sessionVars, excavatorVars, scoreVars, guardVars>>

\* regionSelector returns the region list
RegionSelectorReturns(regions) ==
    /\ run.pc = "regionSelector"
    /\ run' = LoopFrom([run EXCEPT !.regions = regions],
                       run.shallowResult[1], SelectedRegions(regions), <<>>,
                       Append(run.log, ReturnEvent("regionSelector", regions)))
    /\ UNCHANGED <<engine, sessionVars, excavatorVars, scoreVars, guardVars>>

\* deepFn returns: deepResults.push({region, deep}), then the next region
DeepFnReturns(v) ==
    /\ run.pc = "deepFn"
    /\ LET region == run.selectedRegions[Len(run.deepResults) + 1]
       IN  run' = LoopFrom(run, run.shallowResult[1], run.selectedRegions,
                           Push(run.deepResults, [region |-> region, deep |-> v]),
                           Append(run.log, ReturnEvent("deepFn", v)))
    /\ UNCHANGED <<engine, sessionVars, excavatorVars, scoreVars, guardVars>>

\* CallbackThrows with a try/catch around deepFn: a region whose deep pass
\* throws is skipped and the loop goes on to the next one
CallbackThrowsSkipped ==
    /\ run.pc \in {"shallowFn", "regionSelector", "deepFn"}
    /\ IF run.pc = "deepFn"
       THEN run' = LoopFrom(run, run.shallowResult[1], run.selectedRegions,
                            Push(run.deepResults,
                                 [region |-> run.selectedRegions[Len(run.deepResults) + 1],
                                  deep |-> "skipped"]),
                            Append(run.log, ThrowEvent("deepFn")))
       ELSE run' = [run EXCEPT !.pc = "failed",
                               !.error = Some(run.pc),
                               !.log = Append(run.log, ThrowEvent(run.pc))]
    /\ UNCHANGED <<engine, sessionVars, excavatorVars, scoreVars, guardVars>>

\* the callback the engine is inside of throws: nothing in run() catches it
CallbackThrows ==
    /\ run.pc \in {"shallowFn", "regionSelector", "deepFn"}
    /\ run' = [run EXCEPT !.pc = "failed",
                          !.error = Some(run.pc),
                          !.log = Append(run.log, ThrowEvent(run.pc))]
    /\ UNCHANGED <<engine, sessionVars, excavatorVars, scoreVars, guardVars>>

(***************************************************************************)
(* VirtualObjectExcavator: the recursive walk of a JSON-like value.        *)
(***************************************************************************)
MaxDepthBound == 1
MaxArraySampleBound == 2
MaxExcavations == 2

DefaultMaxDepth == 6
DefaultMaxArraySample == 8

\* JSON-like values.  A string is its sequence of characters; an object is
\* its entries in insertion order, as Object.entries yields them.
JNull == [kind |-> "null"]
JUndefined == [kind |-> "undefined"]
JNum(n) == [kind |-> "number", v |-> n]
JStr(chars) == [kind |-> "string", v |-> chars]
JBool(b) == [kind |-> "boolean", v |-> b]
JArr(items) == [kind |-> "array", items |-> items]
JObj(entries) == [kind |-> "object", entries |-> entries]

\* typeof v
Typeof(v) == IF v.kind \in {"null", "array", "object"} THEN "object" ELSE v.kind

\* Array.isArray(v)
IsArray(v) == v.kind = "array"

\* a value that is false in a condition
Falsy(v) ==
    \/ v.kind = "null"
    \/ v.kind = "undefined"
    \/ v.kind = "number" /\ v.v = 0
    \/ v.kind = "string" /\ v.v = <<>>
    \/ v.kind = "boolean" /\ v.v = FALSE

\* Object.prototype.hasOwnProperty.call(v, k)
HasOwnProperty(v, k) ==
    v.kind = "object" /\ \E i \in 1..Len(v.entries) : v.entries[i][1] = k

\* v[k] of an object that has the key
Member(v, k) ==
    v.entries[CHOOSE i \in 1..Len(v.entries) : v.entries[i][1] = k][2]

\* a text of n characters: abcabc...
Text(n) == [i \in 1..n |-> <<"a", "b", "c">>[((i - 1) % 3) + 1]]

\* the payloads handed to excavate: bare values, and the envelope
\* { value, domRoot } the command-line tools build
Inputs ==
    { JNum(1),
      JNull,
      JObj(<< <<"a", JNum(1)>>,
              <<"b", JArr(<<JNum(1), JNum(2), JNum(3)>>)>> >>),
      JArr(<<JNum(1), JNum(2), JNum(3), JNum(4)>>),
      JArr(<<JNum(1), JStr(<<"s">>), JNull>>),
      JObj(<< <<"a", JObj(<< <<"b", JArr(<<JStr(<<"s">>)>>)>> >>)>> >>),
      JObj(<< <<"value", JNum(1)>>, <<"b", JBool(TRUE)>> >>),
      JObj(<< <<"value", JObj(<< <<"a", JArr(<<JNum(1), JNum(2)>>)>> >>)>>,
              <<"domRoot", JNull>> >>),
      JObj(<< <<"s", JStr(Text(64))>>, <<"t", JStr(Text(65))>> >>),
      JArr(<<JStr(Text(70)), JUndefined>>) }

\* constructor(options)
NewExcavator(maxDepth, maxArraySample) ==
    [maxDepth |-> maxDepth, maxArraySample |-> maxArraySample,
     includeDom |-> FALSE]

\* the excavators of the process: the default one and others with small
\* limits
Excavators ==
    {NewExcavator(DefaultMaxDepth, DefaultMaxArraySample)}
    \cup {NewExcavator(d, DefaultMaxArraySample) : d \in -1..MaxDepthBound}
    \cup {NewExcavator(DefaultMaxDepth, n) : n \in -1..MaxArraySampleBound}

\* Number.prototype.toString(36): the digits, most significant first
RECURSIVE ToString36(_)
ToString36(n) ==
    IF n < 36 THEN <<n>> ELSE ToString36(n \div 36) \o <<n % 36>>

\* GenId without the increment: the counter stays as it was
GenIdUnchangedCounter(prefix, counter) ==
    [nextId |-> counter, id |-> <<prefix, "_">> \o ToString36(counter + 1)]

\* genId(prefix), from the counter value `counter`: the id and the counter
GenId(prefix, counter) ==
    [nextId |-> counter + 1, id |-> <<prefix, "_">> \o ToString36(counter + 1)]

\* _typeOf(v)
TypeOf(v) ==
    IF v.kind = "null" THEN "null"
    ELSE IF IsArray(v) THEN "array"
    ELSE Typeof(v)

PreviewMax == 64
PreviewKeep == 61

\* Preview cutting after PreviewMax characters: the marker comes on top
PreviewKeepingMax(v) ==
    IF v.kind = "null" \/ Typeof(v) = "number" \/ Typeof(v) = "boolean" THEN v
    ELSE IF Typeof(v) = "string" THEN
        IF Len(v.v) <= PreviewMax THEN v
        ELSE JStr(Slice0(v.v, PreviewMax) \o <<".", ".", ".">>)
    ELSE JNull

\* _preview(v)
Preview(v) ==
    IF v.kind = "null" \/ Typeof(v) = "number" \/ Typeof(v) = "boolean" THEN v
    ELSE IF Typeof(v) = "string" THEN
        IF Len(v.v) <= PreviewMax THEN v
        ELSE JStr(Slice0(v.v, PreviewKeep) \o <<".", ".", ".">>)
    ELSE JNull

\* the root excavate walks: input.value of an input with an own property
\* "value", else the input
RootOf(input) ==
    IF ~Falsy(input) /\ HasOwnProperty(input, "value")
    THEN Member(input, "value")
    ELSE input

\* TooDeep with >= in the place of >: the walk stops one level early
TooDeepOffByOne(self, depth) == depth >= self.maxDepth

\* depth > this.maxDepth
TooDeep(self, depth) == depth > self.maxDepth

\* the fields map of an object node
Fields(value) ==
    [k \in {value.entries[i][1] : i \in 1..Len(value.entries)} |->
        TypeOf(Member(value, k))]

\* Sampled without the slice: every element is used
SampledWhole(self, value) == value.items

\* value.slice(0, this.maxArraySample)
Sampled(self, value) == Slice0(value.items, self.maxArraySample)

\* the elementTypes histogram of the sampled elements
ElementTypes(sampled) ==
    [et \in {TypeOf(sampled[i]) : i \in 1..Len(sampled)} |->
        Cardinality({i \in 1..Len(sampled) : TypeOf(sampled[i]) = et})]

RootPath == <<[kind |-> "root"]>>
FieldPath(path, k) == path \o <<[kind |-> "field", name |-> k]>>
ElementPath(path, idx) == path \o <<[kind |-> "element", index |-> idx]>>

\* _walkValue(value, id, path, depth, vList, relList): w holds the two lists
\* and the id counter
RECURSIVE WalkValue(_, _, _, _, _, _)
RECURSIVE WalkFields(_, _, _, _, _, _, _)
RECURSIVE WalkElements(_, _, _, _, _, _, _)

\* for (const [k, v] of Object.entries(value)), from entry i on
WalkFields(self, entries, i, id, path, depth, w) ==
    IF i > Len(entries) THEN w
    ELSE
        LET k == entries[i][1]
            v == entries[i][2]
            g == GenId("vo", w.nextId)
            w1 == [w EXCEPT
                     !.nextId = g.nextId,
                     !.relList = Push(@, [from |-> id, to |-> g.id,
                                          kind |-> "field", name |-> k])]
            w2 == WalkValue(self, v, g.id, FieldPath(path, k), depth + 1, w1)
        IN  WalkFields(self, entries, i + 1, id, path, depth, w2)

\* WalkElements with the two ends of the relationship exchanged: the
\* element is recorded as the owner of the array
WalkElementsReversedEdge(self, sampled, i, id, path, depth, w) ==
    IF i > Len(sampled) THEN w
    ELSE
        LET el == sampled[i]
            idx == i - 1
            g == GenId("vo", w.nextId)
            w1 == [w EXCEPT
                     !.nextId = g.nextId,
                     !.relList = Push(@, [from |-> g.id, to |-> id,
                                          kind |-> "element", index |-> idx])]
            w2 == WalkValue(self, el, g.id, ElementPath(path, idx), depth + 1, w1)
        IN  WalkElements(self, sampled, i + 1, id, path, depth, w2)

\* sampled.forEach((el, idx) => ...), from element i on
WalkElements(self, sampled, i, id, path, depth, w) ==
    IF i > Len(sampled) THEN w
    ELSE
        LET el == sampled[i]
            idx == i - 1
            g == GenId("vo", w.nextId)
            w1 == [w EXCEPT
                     !.nextId = g.nextId,
                     !.relList = Push(@, [from |-> id, to |-> g.id,
                                          kind |-> "element", index |-> idx])]
            w2 == WalkValue(self, el, g.id, ElementPath(path, idx), depth + 1, w1)
        IN  WalkElements(self, sampled, i + 1, id, path, depth, w2)

WalkValue(self, value, id, path, depth, w) ==
    IF TooDeep(self, depth) THEN w
    ELSE
        LET t == TypeOf(value) IN
        IF t = "object" /\ value.kind # "null" /\ ~IsArray(value) THEN
            LET vo == [id |-> id, category |-> "struct", path |-> path,
                       type |-> "object", fields |-> Fields(value)]
                w1 == [w EXCEPT !.vList = Push(@, vo)]
            IN  WalkFields(self, value.entries, 1, id, path, depth, w1)
        ELSE IF IsArray(value) THEN
            LET sampled == Sampled(self, value)
                vo == [id |-> id, category |-> "struct", path |-> path,
                       type |-> "array", elementTypes |-> ElementTypes(sampled)]
                w1 == [w EXCEPT !.vList = Push(@, vo)]
            IN  WalkElements(self, sampled, 1, id, path, depth, w1)
        ELSE
            LET vo == [id |-> id, category |-> "value", path |-> path,
                       type |-> t, valuePreview |-> Preview(value)]
            IN  [w EXCEPT !.vList = Push(@, vo)]

\* the ids of a result: of its virtual objects, and the `to` of its
\* relationships
IdsOf(result) ==
    [vo |-> [i \in 1..Len(result.virtualObjects) |-> result.virtualObjects[i].id],
     to |-> [i \in 1..Len(result.relationships) |-> result.relationships[i].to]]

NoExcavation == [called |-> FALSE]

\* no excavate call made yet: no instance has been used, no id is in a result
NothingEmitted == [by |-> <<>>, root |-> <<>>, vo |-> <<>>, to |-> <<>>]

\* the counter values of a process that loaded the module and, possibly,
\* excavated 34 primitive values since
CounterValues == {0, 34}

\* excavate(input) on the excavator self
Excavate(self, input) ==
    /\ nExcavations < MaxExcavations
    /\ LET root == RootOf(input)
           g == GenId("vo", nextId)
           w == WalkValue(self, root, g.id, RootPath, 0,
                          [vList |-> <<>>, relList |-> <<>>,
                           nextId |-> g.nextId])
           result == [virtualObjects |-> w.vList,
                      relationships |-> w.relList,
                      domSheets |-> <<>>]
       IN  /\ nextId' = w.nextId
           /\ excavation' = [called |-> TRUE, self |-> self, input |-> input,
                             rootId |-> g.id, result |-> result]
           /\ emitted' = [by |-> Push(emitted.by, self),
                          root |-> Push(emitted.root, g.id),
                          vo |-> emitted.vo \o IdsOf(result).vo,
                          to |-> emitted.to \o IdsOf(result).to]
    /\ nExcavations' = nExcavations + 1
    /\ UNCHANGED <<sessionVars, engineVars, scoreVars, guardVars>>

(***************************************************************************)
(* VirtualObjectScoreEngine                                                *)
(***************************************************************************)
MaxHistoryWindow == 2
MaxScoreCalls == 2

DefaultHistoryWindow == 10
DayMs == 86400000
WeekMs == 7 * DayMs
HalfDayMs == DayMs \div 2

\* A string is the sequence of its pieces, each piece a run of characters
\* that no other piece contains or overlaps; concatenation is \o.
Str(piece) == <<piece>>

\* an optional member that counts as true in a condition: present and not
\* the empty string
Truthy(opt) == opt # None /\ opt[1] # <<>>

\* a || b || ... : the first true member of opts, else the last one
RECURSIVE FirstTruthy(_, _)
FirstTruthy(opts, fallback) ==
    IF opts = <<>> THEN fallback
    ELSE IF Truthy(Head(opts)) THEN Head(opts)[1]
    ELSE FirstTruthy(Tail(opts), fallback)

\* the virtual objects handed to the score engine; an absent member is None,
\* a fields map is its entries in insertion order
ScoredObject(id, category, signature, fields, selector, ctor) ==
    [id |-> id, category |-> category, signature |-> signature,
     fields |-> fields, selector |-> selector, ctor |-> ctor]

VoStructA ==
    ScoredObject("v1", Some(Str("struct")), None,
                 Some(<< <<"a", "number">> >>), None, None)
VoStructB ==
    ScoredObject("v2", Some(Str("struct")), None,
                 Some(<< <<"a", "number">> >>), None, None)
VoSigned ==
    ScoredObject("v3", None, Some(Str("sig")), None, None, Some(Str("Widget")))
VoButton ==
    ScoredObject("v4", Some(Str("dom-tag")), None, None,
                 Some(Str("Button")), None)

\* virtual objects that differ in the members _computeReuseHint reads: a
\* ctor naming a button on a struct; a selector that names no button in
\* front of a ctor that does; an empty selector on an api-schema; a category
\* that itself names a button; no member at all
VoCtorButton ==
    ScoredObject("v5", Some(Str("struct")), None, None, None,
                 Some(<<"submit", "Button">>))
VoShadowed ==
    ScoredObject("v6", Some(Str("dom-motif")), None, None,
                 Some(Str("div")), Some(Str("Button")))
VoSchema ==
    ScoredObject("v7", Some(Str("api-schema")), None, None, Some(<<>>), None)
VoButtonCategory ==
    ScoredObject("v8", Some(<<"button", "-bar">>), None, None, Some(<<>>), None)
VoBare ==
    ScoredObject("v9", None, None, None, None, None)

\* snapshots as addSnapshot returns them; the score engine reads their
\* result.virtualObjects only
SnapshotOf(id, virtualObjects) ==
    [id |-> id, label |-> "default",
     result |-> [virtualObjects |-> virtualObjects,
                 relationships |-> <<>>, domSheets |-> <<>>]]

Snapshots ==
    { SnapshotOf(<<"s1", 0>>, <<VoStructA, VoStructB>>),
      SnapshotOf(<<"s1", 1>>, <<VoSigned, VoStructA>>),
      SnapshotOf(<<"s2", 0>>, <<VoButton>>),
      SnapshotOf(<<"s2", 1>>, <<>>) }

\* virtual objects as the excavator builds them, which have neither
\* signature nor fields: two primitive values and an array; and two virtual
\* objects with a colon in the signature and in the category
VoValueNumber == ScoredObject("v10", Some(Str("value")), None, None, None, None)
VoValueString == ScoredObject("v11", Some(Str("value")), None, None, None, None)
VoArray == ScoredObject("v12", Some(Str("struct")), None, None, None, None)
VoColonInSignature ==
    ScoredObject("v13", Some(<<"a">>), Some(<<"b", ":", "c">>), None, None, None)
VoColonInCategory ==
    ScoredObject("v14", Some(<<"a", ":", "b">>), Some(<<"c">>), None, None, None)

\* snapshots of the virtual objects above
HintSnapshots ==
    { SnapshotOf(<<"s3", 0>>, <<VoCtorButton, VoShadowed>>),
      SnapshotOf(<<"s3", 1>>, <<VoSchema, VoButtonCategory>>),
      SnapshotOf(<<"s3", 2>>, <<VoBare>>) }

\* what Date.now() returns at the two places that read it while one virtual
\* object is scored: in _computeNovelty and in _updateHistory
Reading(novelty, update) == [novelty |-> novelty, update |-> update]

\* the clock over one scoreSnapshot call: standing still, moving forward by
\* half a day and more, more than a week later, moving backwards
ClockScripts ==
    { <<Reading(0, 0), Reading(0, 0)>>,
      <<Reading(HalfDayMs, HalfDayMs), Reading(DayMs, DayMs)>>,
      <<Reading(9 * DayMs, 9 * DayMs), Reading(9 * DayMs, 9 * DayMs)>>,
      <<Reading(DayMs, DayMs), Reading(HalfDayMs, 0)>> }

\* snapshots of excavator-built virtual objects and of the two with a colon
KeySnapshots ==
    { SnapshotOf(<<"s4", 0>>, <<VoValueNumber, VoValueString>>),
      SnapshotOf(<<"s4", 1>>, <<VoArray, VoStructA>>),
      SnapshotOf(<<"s4", 2>>, <<VoColonInSignature, VoColonInCategory>>) }

\* the clock standing still at 0 over one call
StillClock == <<Reading(0, 0), Reading(0, 0)>>

\* numbers that are not integers: num / den with den > 0
Frac(num, den) == [num |-> num, den |-> den]

\* Math.min(1, x)
MathMin1(x) == IF x.num > x.den THEN Frac(1, 1) ELSE x

\* Math.max(0, x)
MathMax0(x) == IF x.num < 0 THEN Frac(0, 1) ELSE x

\* String.prototype.toLowerCase, piece by piece
ToLowerCase(s) ==
    [i \in 1..Len(s) |->
        CASE s[i] = "Button" -> "button"
          [] s[i] = "Widget" -> "widget"
          [] OTHER -> s[i]]

\* String.prototype.includes(piece)
Includes(s, piece) == \E i \in 1..Len(s) : s[i] = piece

\* JSON.stringify of a map from strings to strings, entries in insertion
\* order
RECURSIVE StringifyEntries(_, _)
StringifyEntries(entries, i) ==
    IF i > Len(entries) THEN <<>>
    ELSE (IF i > 1 THEN <<",">> ELSE <<>>)
         \o <<"\"", entries[i][1], "\"", ":", "\"", entries[i][2], "\"">>
         \o StringifyEntries(entries, i + 1)

StringifyMap(entries) == <<"{">> \o StringifyEntries(entries, 1) \o <<"}">>

\* constructor(options)
NewScorer(historyWindow) ==
    [historyWindow |-> historyWindow, objectHistory |-> <<>>]

ScorerIds == {"e1", "e2"}
HistoryWindows == -1..MaxHistoryWindow

NoScoring == [called |-> FALSE]

\* MakeKey without the signature: the category alone
MakeKeyCategoryOnly(vo) == FirstTruthy(<<vo.category>>, Str("unknown"))

\* _makeKey(vo)
MakeKey(vo) ==
    LET cat == FirstTruthy(<<vo.category>>, Str("unknown"))
        sig == IF vo.signature # None
               THEN vo.signature[1]
               ELSE StringifyMap(FirstTruthy(<<vo.fields>>, <<>>))
    IN  cat \o Str(":") \o sig

\* this.objectHistory after _getHistory(key)
GetHistory(objectHistory, key) ==
    IF key \in DOMAIN objectHistory
    THEN objectHistory
    ELSE objectHistory @@ (key :> <<>>)

\* UpdateHistory with pop() in the place of shift(): the newest observation
\* is the one removed
UpdateHistoryEvictNewest(self, objectHistory, key, now) ==
    LET created == GetHistory(objectHistory, key)
        pushed == Push(created[key], now)
    IN  [created EXCEPT ![key] =
            IF Len(pushed) > self.historyWindow
            THEN SubSeq(pushed, 1, Len(pushed) - 1)
            ELSE pushed]

\* this.objectHistory after _updateHistory(key), Date.now() being `now`
UpdateHistory(self, objectHistory, key, now) ==
    LET created == GetHistory(objectHistory, key)
        pushed == Push(created[key], now)
    IN  [created EXCEPT ![key] =
            IF Len(pushed) > self.historyWindow THEN Shift(pushed) ELSE pushed]

\* ComputeStability dividing the sum of the intervals by hist.length
ComputeStabilityOverLength(history) ==
    IF Len(history) < 2 THEN Frac(1, 5)
    ELSE
        LET intervals == [i \in 1..(Len(history) - 1) |-> history[i + 1] - history[i]]
            total == SumOver(intervals, Len(intervals))
        IN  MathMax0(MathMin1(Frac(total, Len(history) * DayMs)))

\* _computeStability(hist)
ComputeStability(history) ==
    IF Len(history) < 2 THEN Frac(1, 5)
    ELSE
        LET intervals == [i \in 1..(Len(history) - 1) |-> history[i + 1] - history[i]]
            total == SumOver(intervals, Len(intervals))
        IN  MathMax0(MathMin1(Frac(total, Len(intervals) * DayMs)))

\* ComputeNovelty without Math.max(0, ...): a last sighting later than the
\* clock reading gives a negative score
ComputeNoveltyNoFloor(history, now) ==
    IF Len(history) = 1 THEN Frac(1, 1)
    ELSE IF Len(history) = 0 THEN Frac(1, 2)
    ELSE MathMin1(Frac(now - history[Len(history)], WeekMs))

\* ComputeNovelty with the results of its first two branches exchanged
ComputeNoveltySwapped(history, now) ==
    IF Len(history) = 1 THEN Frac(1, 2)
    ELSE IF Len(history) = 0 THEN Frac(1, 1)
    ELSE MathMax0(MathMin1(Frac(now - history[Len(history)], WeekMs)))

\* _computeNovelty(hist), Date.now() being `now`
ComputeNovelty(history, now) ==
    IF Len(history) = 1 THEN Frac(1, 1)
    ELSE IF Len(history) = 0 THEN Frac(1, 2)
    ELSE MathMax0(MathMin1(Frac(now - history[Len(history)], WeekMs)))

\* ComputeReuseHint with the two category tests in front of the test for
\* "button"
ComputeReuseHintCategoryFirst(vo) ==
    LET name == FirstTruthy(<<vo.selector, vo.ctor, vo.category>>, Str("object"))
        lowered == ToLowerCase(name)
    IN  IF vo.category \in {Some(Str("dom-tag")), Some(Str("dom-motif"))}
        THEN "dom-structure"
        ELSE IF vo.category \in {Some(Str("struct")), Some(Str("api-schema"))}
             THEN "api-schema"
        ELSE IF Includes(lowered, "button") THEN "ui-action"
        ELSE "misc"

\* _computeReuseHint(vo)
ComputeReuseHint(vo) ==
    LET name == FirstTruthy(<<vo.selector, vo.ctor, vo.category>>, Str("object"))
        lowered == ToLowerCase(name)
    IN  IF Includes(lowered, "button") THEN "ui-action"
        ELSE IF vo.category \in {Some(Str("dom-tag")), Some(Str("dom-motif"))}
             THEN "dom-structure"
        ELSE IF vo.category \in {Some(Str("struct")), Some(Str("api-schema"))}
             THEN "api-schema"
        ELSE "misc"

\* score.category
CategoryOf(vo) == FirstTruthy(<<vo.category>>, Str("unknown"))

\* ScoreOne with the scores collected by unshift(): newest first
ScoreOneNewestFirst(selfId, vo, reading, st) ==
    LET self == scorers[selfId]
        key == MakeKey(vo)
        looked == GetHistory(st.objectHistory, key)
        history == looked[key]
        updated == UpdateHistory(self, looked, key, reading.update)
    IN  [st EXCEPT
           !.objectHistory = updated,
           !.scores = <<[id |-> vo.id, category |-> CategoryOf(vo),
                         stability |-> ComputeStability(history),
                         novelty |-> ComputeNovelty(history, reading.novelty),
                         reuseHint |-> ComputeReuseHint(vo)]>> \o @,
           !.evals = Push(@, [key |-> key, history |-> history,
                              after |-> updated[key],
                              reading |-> reading,
                              nObserved |-> Len(st.observed)]),
           !.observed = Push(@, [by |-> selfId, key |-> key,
                                 at |-> reading.update])]

\* ScoreOne with _updateHistory(key) moved before the two computations
ScoreOneAppendFirst(selfId, vo, reading, st) ==
    LET self == scorers[selfId]
        key == MakeKey(vo)
        updated == UpdateHistory(self, GetHistory(st.objectHistory, key), key,
                                 reading.update)
        history == updated[key]
    IN  [st EXCEPT
           !.objectHistory = updated,
           !.scores = Push(@, [id |-> vo.id, category |-> CategoryOf(vo),
                               stability |-> ComputeStability(history),
                               novelty |-> ComputeNovelty(history, reading.novelty),
                               reuseHint |-> ComputeReuseHint(vo)]),
           !.evals = Push(@, [key |-> key, history |-> history,
                              after |-> updated[key],
                              reading |-> reading,
                              nObserved |-> Len(st.observed)]),
           !.observed = Push(@, [by |-> selfId, key |-> key,
                                 at |-> reading.update])]

\* the body of the loop of scoreSnapshot, for one virtual object: st holds
\* this.objectHistory, the scores so far and the record of what was read
ScoreOne(selfId, vo, reading, st) ==
    LET self == scorers[selfId]
        key == MakeKey(vo)
        looked == GetHistory(st.objectHistory, key)
        history == looked[key]
        stability == ComputeStability(history)
        novelty == ComputeNovelty(history, reading.novelty)
        reuseHint == ComputeReuseHint(vo)
        updated == UpdateHistory(self, looked, key, reading.update)
    IN  [st EXCEPT
           !.objectHistory = updated,
           !.scores = Push(@, [id |-> vo.id, category |-> CategoryOf(vo),
                               stability |-> stability, novelty |-> novelty,
                               reuseHint |-> reuseHint]),
           !.evals = Push(@, [key |-> key, history |-> history,
                              after |-> updated[key],
                              reading |-> reading,
                              nObserved |-> Len(st.observed)]),
           !.observed = Push(@, [by |-> selfId, key |-> key,
                                 at |-> reading.update])]

\* for (const vo of snapshot.result.virtualObjects), from the i-th on
RECURSIVE ScoreFrom(_, _, _, _)
ScoreFrom(selfId, clock, i, st) ==
    IF i > Len(st.snapshot.result.virtualObjects) THEN st
    ELSE ScoreFrom(selfId, clock, i + 1,
                   ScoreOne(selfId, st.snapshot.result.virtualObjects[i],
                            clock[i], st))

\* ScoreSnapshot with key eviction: the history map keeps only the keys the
\* call has looked up
ScoreSnapshotEvictingKeys(selfId, snapshot, clock) ==
    /\ nScoreCalls < MaxScoreCalls
    /\ LET done == ScoreFrom(selfId, clock, 1,
                             [objectHistory |-> scorers[selfId].objectHistory,
                              scores |-> <<>>, evals |-> <<>>,
                              observed |-> observed, snapshot |-> snapshot])
           looked == {done.evals[i].key : i \in 1..Len(done.evals)}
       IN  /\ scorers' = [scorers EXCEPT
                            ![selfId].objectHistory =
                                [k \in looked |-> done.objectHistory[k]]]
           /\ scoring' = [called |-> TRUE, self |-> selfId,
                          snapshot |-> snapshot, scores |-> done.scores,
                          evals |-> done.evals,
                          snapshotAfter |-> done.snapshot]
           /\ observed' = done.observed
    /\ nScoreCalls' = nScoreCalls + 1
    /\ UNCHANGED <<sessionVars, engineVars, excavatorVars, guardVars>>

\* scoreSnapshot(snapshot) on the engine selfId
ScoreSnapshot(selfId, snapshot, clock) ==
    /\ nScoreCalls < MaxScoreCalls
    /\ LET done == ScoreFrom(selfId, clock, 1,
                             [objectHistory |-> scorers[selfId].objectHistory,
                              scores |-> <<>>, evals |-> <<>>,
                              observed |-> observed, snapshot |-> snapshot])
       IN  /\ scorers' = [scorers EXCEPT
                            ![selfId].objectHistory = done.objectHistory]
           /\ scoring' = [called |-> TRUE, self |-> selfId,
                          snapshot |-> snapshot, scores |-> done.scores,
                          evals |-> done.evals,
                          snapshotAfter |-> done.snapshot]
           /\ observed' = done.observed
    /\ nScoreCalls' = nScoreCalls + 1
    /\ UNCHANGED <<sessionVars, engineVars, excavatorVars, guardVars>>

(***************************************************************************)
(* StreamGuard (src/src/jetson/streamguard.js): two NDJSON feeds relayed   *)
(* as virtual-object events.  A text is its sequence of characters.        *)
(***************************************************************************)
MaxChunk == 3

\* the two feeds start() attaches
Kinds == {"vision", "audio"}

\* the characters String.prototype.trim removes and JSON.parse skips
Whitespace == {" ", "\r", "\t", "\n"}

RECURSIVE TrimStart(_)
TrimStart(s) ==
    IF s # <<>> /\ Head(s) \in Whitespace THEN TrimStart(Tail(s)) ELSE s

RECURSIVE TrimEnd(_)
TrimEnd(s) ==
    IF s # <<>> /\ s[Len(s)] \in Whitespace
    THEN TrimEnd(SubSeq(s, 1, Len(s) - 1))
    ELSE s

\* s.trim()
Trim(s) == TrimEnd(TrimStart(s))

RECURSIVE IndexOfFrom(_, _, _)
IndexOfFrom(s, c, i) ==
    IF i > Len(s) THEN -1
    ELSE IF s[i] = c THEN i - 1
    ELSE IndexOfFrom(s, c, i + 1)

\* s.indexOf(c): the 0-based place of the first c, -1 if there is none
IndexOf(s, c) == IndexOfFrom(s, c, 1)

\* s.slice(start) for 0 <= start
SliceFrom(s, start) == SubSeq(s, start + 1, Len(s))

\* The feeds are written in the characters 1 2 n u l { } and whitespace.
Digits == {"1", "2"}

RECURSIVE NumberOf(_)
NumberOf(t) ==
    LET d == IF t[Len(t)] = "1" THEN 1 ELSE 2 IN
    IF Len(t) = 1 THEN d
    ELSE 10 * NumberOf(SubSeq(t, 1, Len(t) - 1)) + d

\* JSON.parse(text) on such a text: a number, null or the empty object,
\* with whitespace around it and inside the braces; anything else is a
\* SyntaxError (ok = FALSE)
JSONparseText(text) ==
    LET t == Trim(text) IN
    IF t # <<>> /\ \A i \in 1..Len(t) : t[i] \in Digits
    THEN [ok |-> TRUE, value |-> JNum(NumberOf(t))]
    ELSE IF t = <<"n", "u", "l", "l">>
    THEN [ok |-> TRUE, value |-> JNull]
    ELSE IF /\ Len(t) >= 2
            /\ t[1] = "{"
            /\ t[Len(t)] = "}"
            /\ Trim(SubSeq(t, 2, Len(t) - 1)) = <<>>
    THEN [ok |-> TRUE, value |-> JObj(<<>>)]
    ELSE [ok |-> FALSE, value |-> JUndefined]

\* base.category
EventCategory(kind) ==
    IF kind = "vision" THEN "vision-compliance" ELSE "audio-compliance"

\* _normalizeToVirtualObjectEvent(raw, kind).  Reading raw.device_id of
\* null throws a TypeError; a number and the empty object have none of the
\* properties read, so every default applies.  event_id and ts_unix_ms come
\* from the clock and the random generator and are left out.
NormalizeToVirtualObjectEvent(raw, kind) ==
    IF raw.kind = "null" THEN [threw |-> TRUE, voEvent |-> None]
    ELSE [threw |-> FALSE,
          voEvent |-> Some(
            [device_id |-> "jetson-1",
             zone_id |-> "phoenix-zone-1",
             category |-> EventCategory(kind),
             fields |-> [kind |-> kind, frame_id |-> JNull,
                         objects |-> JNull, peak_db |-> JNull,
                         speech_prob |-> JNull, keywords |-> JNull,
                         policy_flags |-> JArr(<<>>), raw |-> raw]])]

\* _publishVirtualObjectEvent(voEvent): the messages handed to the client
PublishVirtualObjectEvent(cl, voEvent, sent) ==
    IF cl = None \/ ~cl[1].connected THEN sent
    ELSE Push(sent, JSONstringify(voEvent))

\* _handleRawEventLine(line, kind) on the outputs g so far
HandleRawEventLine(line, kind, cl, g) ==
    LET parsed == JSONparseText(line) IN
    IF ~parsed.ok THEN g
    ELSE
        LET n == NormalizeToVirtualObjectEvent(parsed.value, kind) IN
        IF n.threw THEN [g EXCEPT !.threw = TRUE]
        ELSE [g EXCEPT
                !.published = PublishVirtualObjectEvent(cl, n.voEvent[1], @),
                !.voEvents = Push(@, n.voEvent[1])]

\* while ((idx = buffer.indexOf("\n")) >= 0) { ... } of the data handler;
\* an exception leaves the loop with the line already off the buffer
RECURSIVE DrainLines(_, _, _, _)
DrainLines(buffer, kind, cl, g) ==
    LET idx == IndexOf(buffer, "\n") IN
    IF idx < 0 THEN [buffer |-> buffer, out |-> g]
    ELSE
        LET line == Trim(Slice0(buffer, idx))
            rest == SliceFrom(buffer, idx + 1)
        IN  IF line = <<>> THEN DrainLines(rest, kind, cl, g)
            ELSE
                LET g1 == HandleRawEventLine(line, kind, cl, g) IN
                IF g1.threw THEN [buffer |-> rest, out |-> g1]
                ELSE DrainLines(rest, kind, cl, g1)

\* what the two feed files hold
FeedTexts ==
    { <<"{", "}", "\n", "{", "\n", "1", "2", "\n">>,
      <<"1", "\n", "\n", " ", "{", " ", "}", "\r", "\n", "2">>,
      <<"n", "u", "l", "l", "\n", "1", "\n">> }

\* a feed just attached: nothing read, let buffer = ""
NewFeed(data) == [data |-> data, read |-> 0, buffer |-> <<>>]

\* stream.on("data", (chunk) => ...) of the feed `kind`, for a chunk of the
\* next n characters.  An exception that leaves the handler is uncaught:
\* the process ends.
OnData(kind, n) ==
    /\ ~uncaught
    /\ feeds[kind].read + n <= Len(feeds[kind].data)
    /\ LET f == feeds[kind]
           chunk == SubSeq(f.data, f.read + 1, f.read + n)
           d == DrainLines(f.buffer \o chunk, kind, client,
                           [voEvents |-> voEvents, published |-> published,
                            threw |-> FALSE])
       IN  /\ feeds' = [feeds EXCEPT ![kind] =
                          [f EXCEPT !.read = f.read + n, !.buffer = d.buffer]]
           /\ voEvents' = d.out.voEvents
           /\ published' = d.out.published
           /\ uncaught' = d.out.threw
    /\ UNCHANGED <<client, sessionVars, engineVars, excavatorVars, scoreVars>>

\* the broker accepted the connection: client.connected becomes true
MqttConnect ==
    /\ ~uncaught
    /\ client # None
    /\ ~client[1].connected
    /\ client' = Some([connected |-> TRUE])
    /\ UNCHANGED <<feeds, voEvents, published, uncaught, sessionVars,
                   engineVars, excavatorVars, scoreVars>>

\* the connection was lost: client.connected becomes false
MqttClose ==
    /\ ~uncaught
    /\ client # None
    /\ client[1].connected
    /\ client' = Some([connected |-> FALSE])
    /\ UNCHANGED <<feeds, voEvents, published, uncaught, sessionVars,
                   engineVars, excavatorVars, scoreVars>>

\* no StreamGuard exists in the process
GuardNotStarted ==
    /\ client = None
    /\ feeds = <<>>
    /\ voEvents = <<>>
    /\ published = <<>>
    /\ uncaught = FALSE

NoScorers == <<>>

\* constructor(options) of the manager, on a fresh catalog
Init ==
    /\ maxSnapshots \in 0..MaxSnapshotsBound
    /\ hasPersistence \in BOOLEAN
    /\ sessions = <<>>
    /\ db = EmptyDb
    /\ last = NoCall
    /\ hist = <<>>
    /\ nAdds = 0
    /\ nFaults = 0
    /\ restarted = FALSE
    /\ engine = EngineIdle
    /\ run = RunIdle
    /\ nextId = 0
    /\ excavation = NoExcavation
    /\ emitted = NothingEmitted
    /\ nExcavations = 0
    /\ scorers = NoScorers
    /\ scoring = NoScoring
    /\ observed = <<>>
    /\ nScoreCalls = 0
    /\ GuardNotStarted

\* One catalog over several runs of the program; the persistence
\* collaborator throws only where the schema makes it (a repeated key).
Next ==
    \/ \E c \in StartCalls : StartSession(c.sid, c.metadata, c.now, "none")
    \/ \E c \in AddCalls : AddSnapshot(c.sid, c.result, c.label, c.now, "none")
    \/ \E sid \in SessionIds : GetSessionSummary(sid)
    \/ ListSessions
    \/ Restart

Spec == Init /\ [][Next]_vars

\* constructor(options) of the engine; the session manager is left as its
\* own constructor leaves it by default
InitEngine ==
    /\ engine \in [maxDeepRegions : DeepRegionCaps]
    /\ run = RunIdle
    /\ maxSnapshots = 20
    /\ hasPersistence = FALSE
    /\ sessions = <<>>
    /\ db = EmptyDb
    /\ last = NoCall
    /\ hist = <<>>
    /\ nAdds = 0
    /\ nFaults = 0
    /\ restarted = FALSE
    /\ nextId = 0
    /\ excavation = NoExcavation
    /\ emitted = NothingEmitted
    /\ nExcavations = 0
    /\ scorers = NoScorers
    /\ scoring = NoScoring
    /\ observed = <<>>
    /\ nScoreCalls = 0
    /\ GuardNotStarted

NextEngine ==
    \/ \E hasSelector \in BOOLEAN : RunCall(hasSelector)
    \/ \E v \in ShallowValues : ShallowFnReturns(v)
    \/ \E regions \in RegionLists : RegionSelectorReturns(regions)
    \/ \E v \in DeepValues : DeepFnReturns(v)
    \/ CallbackThrows

SpecEngine == InitEngine /\ [][NextEngine]_vars

\* One run of the program in which the persistence collaborator may also
\* throw at any of the points of Faults.
NextFaults ==
    \/ \E c \in StartCalls, fault \in Faults :
          StartSession(c.sid, c.metadata, c.now, fault)
    \/ \E c \in AddCalls, fault \in Faults :
          AddSnapshot(c.sid, c.result, c.label, c.now, fault)
    \/ \E sid \in SessionIds : GetSessionSummary(sid)
    \/ ListSessions

SpecFaults == Init /\ [][NextFaults]_vars

\* The module is loaded and nothing else of the program is in use: the
\* session manager and the engine stay as constructed.
InitExcavator ==
    /\ nextId \in CounterValues
    /\ excavation = NoExcavation
    /\ emitted = NothingEmitted
    /\ nExcavations = 0
    /\ scorers = NoScorers
    /\ scoring = NoScoring
    /\ observed = <<>>
    /\ nScoreCalls = 0
    /\ GuardNotStarted
    /\ engine = EngineIdle
    /\ run = RunIdle
    /\ maxSnapshots = 20
    /\ hasPersistence = FALSE
    /\ sessions = <<>>
    /\ db = EmptyDb
    /\ last = NoCall
    /\ hist = <<>>
    /\ nAdds = 0
    /\ nFaults = 0
    /\ restarted = FALSE

NextExcavator ==
    \E self \in Excavators, input \in Inputs : Excavate(self, input)

SpecExcavator == InitExcavator /\ [][NextExcavator]_vars

\* Two score engines are constructed, one with a given historyWindow and one
\* with the default; nothing else of the program is in use.
InitScore ==
    /\ scorers \in {("e1" :> NewScorer(w)) @@ ("e2" :> NewScorer(DefaultHistoryWindow)) :
                       w \in HistoryWindows}
    /\ scoring = NoScoring
    /\ observed = <<>>
    /\ nScoreCalls = 0
    /\ GuardNotStarted
    /\ nextId = 0
    /\ excavation = NoExcavation
    /\ emitted = NothingEmitted
    /\ nExcavations = 0
    /\ engine = EngineIdle
    /\ run = RunIdle
    /\ maxSnapshots = 20
    /\ hasPersistence = FALSE
    /\ sessions = <<>>
    /\ db = EmptyDb
    /\ last = NoCall
    /\ hist = <<>>
    /\ nAdds = 0
    /\ nFaults = 0
    /\ restarted = FALSE

NextScore ==
    \/ \E selfId \in ScorerIds, snapshot \in Snapshots, clock \in ClockScripts :
          ScoreSnapshot(selfId, snapshot, clock)
    \/ \E selfId \in ScorerIds, snapshot \in HintSnapshots \cup KeySnapshots :
          ScoreSnapshot(selfId, snapshot, StillClock)

SpecScore == InitScore /\ [][NextScore]_vars

\* start() was called on a StreamGuard: the client is created, not yet
\* connected, and both feeds are attached; nothing else of the program is
\* in use.
InitGuard ==
    /\ client = Some([connected |-> FALSE])
    /\ feeds \in [Kinds -> {NewFeed(data) : data \in FeedTexts}]
    /\ voEvents = <<>>
    /\ published = <<>>
    /\ uncaught = FALSE
    /\ scorers = NoScorers
    /\ scoring = NoScoring
    /\ observed = <<>>
    /\ nScoreCalls = 0
    /\ nextId = 0
    /\ excavation = NoExcavation
    /\ emitted = NothingEmitted
    /\ nExcavations = 0
    /\ engine = EngineIdle
    /\ run = RunIdle
    /\ maxSnapshots = 20
    /\ hasPersistence = FALSE
    /\ sessions = <<>>
    /\ db = EmptyDb
    /\ last = NoCall
    /\ hist = <<>>
    /\ nAdds = 0
    /\ nFaults = 0
    /\ restarted = FALSE

\* chunks arrive on either feed in any order and of any size up to
\* MaxChunk, while the connection to the broker comes and goes
NextGuard ==
    \/ \E kind \in Kinds, n \in 1..MaxChunk : OnData(kind, n)
    \/ MqttConnect
    \/ MqttClose

SpecGuard == InitGuard /\ [][NextGuard]_vars

(***************************************************************************)
(* The session ledger: claims C1 to C7.                                    *)
(***************************************************************************)
\* metric m summed over the snapshots of a log, front to back
RECURSIVE TotalOf(_, _)
TotalOf(snaps, m) ==
    IF snaps = <<>> THEN 0 ELSE Head(snaps).metrics[m] + TotalOf(Tail(snaps), m)

\* the last k entries of a sequence
LastK(seq, k) == SubSeq(seq, Len(seq) - k + 1, Len(seq))

\* C1: in every reachable state every session's log holds at most
\* maxSnapshots snapshots, also after a startSession that hydrates stored
\* snapshots and after the addSnapshot calls that follow it.  (Stated for
\* the managers with maxSnapshots >= 1.)
C1_LogWithinCapacity ==
    maxSnapshots >= 1 =>
        \A sid \in DOMAIN sessions : Len(sessions[sid].snapshots) <= maxSnapshots

\* C2: for a session that started with an empty log, with maxSnapshots >= 1,
\* and on which every addSnapshot call so far succeeded (n calls), the log is
\* exactly the last min(n, maxSnapshots) snapshots added, in the order they
\* were added; so an overflowing addSnapshot removed the oldest one only.
C2_FifoWindow ==
    \A sid \in DOMAIN sessions :
        (maxSnapshots >= 1 /\ hist[sid].startedEmpty /\ hist[sid].clean) =>
            sessions[sid].snapshots =
                LastK(hist[sid].added, Min(Len(hist[sid].added), maxSnapshots))

\* C2 witness: maxSnapshots = 2 and three snapshots added: the log is the
\* second and the third, the first is gone.
C2_Witness ==
    \E sid \in DOMAIN sessions :
        /\ maxSnapshots = 2
        /\ hist[sid].startedEmpty /\ hist[sid].clean
        /\ Len(hist[sid].added) = 3
        /\ sessions[sid].snapshots = <<hist[sid].added[2], hist[sid].added[3]>>
        /\ hist[sid].added[1] # hist[sid].added[2]

\* C3: after every successful addSnapshot the summary's totalVirtualObjects,
\* totalRelationships and domSheets are the sums of the metric over exactly
\* the snapshots now in the log.
C3_SummaryIsWindowSum ==
    (last.op = "addSnapshot" /\ last.outcome = "ok") =>
        LET session == sessions[last.sid]
        IN  /\ session.summary.totalVirtualObjects
                 = TotalOf(session.snapshots, "virtualObjects")
            /\ session.summary.totalRelationships
                 = TotalOf(session.snapshots, "relationships")
            /\ session.summary.domSheets = TotalOf(session.snapshots, "domSheets")

\* C3 witness: a successful addSnapshot that evicted a snapshot with
\* non-zero metrics, leaving a log with non-zero totals of all three kinds.
C3_Witness ==
    /\ last.op = "addSnapshot" /\ last.outcome = "ok"
    /\ hist[last.sid].startedEmpty /\ hist[last.sid].clean
    /\ Len(hist[last.sid].added) > Len(sessions[last.sid].snapshots)
    /\ hist[last.sid].added[1].metrics.virtualObjects > 0
    /\ sessions[last.sid].summary.totalRelationships > 0
    /\ sessions[last.sid].summary.domSheets > 0

\* C4: an addSnapshot on a known session raises summary.driftEvents by
\* exactly 1 if, after eviction, the log holds at least 2 snapshots whose
\* newest two differ in virtual-object count or in relationship count, and
\* leaves driftEvents unchanged in every other case.
C4_DriftIsCountBased ==
    [][ (last'.op = "addSnapshot" /\ last'.outcome # "unknown-session") =>
          LET sid == last'.sid
              log == sessions'[sid].snapshots
              n == Len(log)
              moved == /\ n >= 2
                       /\ \/ log[n].metrics.virtualObjects
                               # log[n - 1].metrics.virtualObjects
                          \/ log[n].metrics.relationships
                               # log[n - 1].metrics.relationships
          IN  sessions'[sid].summary.driftEvents =
                 sessions[sid].summary.driftEvents + (IF moved THEN 1 ELSE 0) ]_vars

\* C4 witness: two consecutive snapshots with equal counts but different
\* result contents and domSheet counts, added without any drift event.
C4_Witness ==
    /\ last.op = "addSnapshot" /\ last.outcome = "ok"
    /\ LET log == sessions[last.sid].snapshots
           n == Len(log)
       IN  /\ n >= 2
           /\ log[n].metrics.virtualObjects = log[n - 1].metrics.virtualObjects
           /\ log[n].metrics.relationships = log[n - 1].metrics.relationships
           /\ log[n].metrics.domSheets # log[n - 1].metrics.domSheets
           /\ log[n].result # log[n - 1].result
           /\ sessions[last.sid].summary.driftEvents = 0

\* C5: addSnapshot and getSessionSummary for an id that is not in the
\* session map fail with the unknown-session error and change nothing: no
\* session is created and no session or catalog row changes.
C5_UnknownSessionFails ==
    [][ (last'.op \in {"addSnapshot", "getSessionSummary"}
           /\ last'.sid \notin DOMAIN sessions) =>
          /\ last'.outcome = "unknown-session"
          /\ last'.ret = None
          /\ sessions' = sessions
          /\ db' = db ]_vars

\* C5 witness: addSnapshot for an unknown id failed while another session
\* with a snapshot in its log exists.
C5_Witness ==
    /\ last.op = "addSnapshot"
    /\ last.outcome = "unknown-session"
    /\ last.sid \notin DOMAIN sessions
    /\ \E other \in DOMAIN sessions : sessions[other].snapshots # <<>>

\* C6: startSession for an id that already has a session returns that
\* session and changes nothing: metadata, createdAt, log and summary stay,
\* and the persistence collaborator is not called.
C6_RestartOfSessionIsNoOp ==
    [][ (last'.op = "startSession" /\ last'.sid \in DOMAIN sessions) =>
          /\ last'.outcome = "existing"
          /\ last'.ret = Some(sessions[last'.sid])
          /\ last'.trace = <<>>
          /\ sessions' = sessions
          /\ db' = db ]_vars

\* C6 witness: startSession with other metadata on a session, kept in the
\* catalog, that has a snapshot in its log.
C6_Witness ==
    /\ last.op = "startSession"
    /\ last.outcome = "existing"
    /\ hasPersistence
    /\ last.args # <<sessions[last.sid].metadata>>
    /\ sessions[last.sid].snapshots # <<>>

\* C7: with a persistence collaborator, a startSession that creates a
\* session calls saveSession, then hydrateSessionSnapshots, and registers the
\* session last; when one of the two calls throws, the call fails and the
\* session map is as before, so the id is still unknown to addSnapshot.
C7_PersistThenRegister ==
    [][ (last'.op = "startSession" /\ last'.sid \notin DOMAIN sessions
           /\ hasPersistence) =>
          \/ /\ last'.outcome = "created"
             /\ last'.trace = <<"saveSession", "hydrateSessionSnapshots",
                                "sessions.set">>
             /\ last'.sid \in DOMAIN sessions'
          \/ /\ last'.outcome = "persistence-error"
             /\ last'.trace \in {<<"saveSession">>,
                                 <<"saveSession", "hydrateSessionSnapshots">>}
             /\ sessions' = sessions ]_vars

\* C7 witness: hydrateSessionSnapshots threw after saveSession had stored
\* the session row, and the session is not in the map.
C7_Witness ==
    /\ last.op = "startSession"
    /\ last.outcome = "persistence-error"
    /\ last.trace = <<"saveSession", "hydrateSessionSnapshots">>
    /\ SessionRowExists(db, last.sid)
    /\ last.sid \notin DOMAIN sessions

(***************************************************************************)
(* MultiPassEngine.run: claims C8 to C10.                                  *)
(***************************************************************************)
IsShallowFnCall(e) == e.kind = "call" /\ e.fn = "shallowFn"
IsRegionSelectorCall(e) == e.kind = "call" /\ e.fn = "regionSelector"
IsDeepFnCall(e) == e.kind = "call" /\ e.fn = "deepFn"
IsThrow(e) == e.kind = "throw"

\* C8: for a non-negative maxDeepRegions and the region list R (the
\* selector's output, or the empty list without a selector) a completed run
\* returns deepResults of length min(|R|, maxDeepRegions) whose i-th entry
\* carries R[i]; deepFn was called that many times and for no later region.
C8_RegionCap ==
    (run.pc = "done" /\ engine.maxDeepRegions >= 0) =>
        LET R == run.regions
            k == Min(Len(R), engine.maxDeepRegions)
            out == run.result[1].deepResults
            calls == SelectSeq(run.log, IsDeepFnCall)
        IN  /\ ~run.hasSelector => R = <<>>
            /\ Len(out) = k
            /\ \A i \in 1..k : out[i].region = R[i]
            /\ Len(calls) = k
            /\ \A i \in 1..k : calls[i].args = <<"input", R[i]>>

\* C8 witness: maxDeepRegions = 1 and a selector that returned 3 regions,
\* the first of them different from the second: deepResults holds one entry,
\* for the first region.
C8_Witness ==
    /\ run.pc = "done"
    /\ engine.maxDeepRegions = 1
    /\ Len(run.regions) = 3
    /\ run.regions[1] # run.regions[2]
    /\ Len(run.result[1].deepResults) = 1
    /\ run.result[1].deepResults[1].region = run.regions[1]

\* C9: shallowFn is called exactly once and first; regionSelector, if
\* supplied, is called exactly once, right after shallowFn returned and with
\* the value it returned; deepFn is called once per retained region, in list
\* order, and no call is made before the previous call has returned.
C9_CallOrder ==
    run.pc # "idle" =>
        LET log == run.log
            deepCalls == SelectSeq(log, IsDeepFnCall)
            selectorCalls == SelectSeq(log, IsRegionSelectorCall)
        IN  /\ IsShallowFnCall(log[1]) /\ log[1].args = <<"input">>
            /\ Len(SelectSeq(log, IsShallowFnCall)) = 1
            /\ \A j \in 2..Len(log) :
                  log[j].kind = "call" => log[j - 1].kind = "return"
            /\ \A j \in 1..Len(log) :
                  IsRegionSelectorCall(log[j]) =>
                     /\ run.hasSelector
                     /\ j = 3
                     /\ log[2].fn = "shallowFn"
                     /\ log[j].args = <<log[2].value>>
            /\ Len(selectorCalls) <= 1
            /\ Len(deepCalls) <= Len(run.selectedRegions)
            /\ \A i \in 1..Len(deepCalls) :
                  deepCalls[i].args = <<"input", run.selectedRegions[i]>>
            /\ run.pc = "done" =>
                  /\ Len(selectorCalls) = (IF run.hasSelector THEN 1 ELSE 0)
                  /\ Len(deepCalls) = Len(run.selectedRegions)

\* C9 witness: a completed run with a selector and two deep passes over two
\* different regions.
C9_Witness ==
    /\ run.pc = "done"
    /\ run.hasSelector
    /\ Len(run.selectedRegions) = 2
    /\ run.selectedRegions[1] # run.selectedRegions[2]
    /\ Len(SelectSeq(run.log, IsDeepFnCall)) = 2

\* C10: once shallowFn, regionSelector or a deepFn call has thrown, the run
\* has failed with that error: the throw is the last thing that happened (no
\* retry of the call, no deepFn call for a later region) and no
\* {shallowResult, deepResults} is returned, partial or not.
C10_FailureIsFatal ==
    /\ [](\A j \in 1..Len(run.log) :
            IsThrow(run.log[j]) =>
               /\ j = Len(run.log)
               /\ run.log[j - 1].kind = "call" /\ run.log[j - 1].fn = run.log[j].fn
               /\ run.pc = "failed"
               /\ run.error = Some(run.log[j].fn)
               /\ run.result = None)
    /\ [][run.pc = "failed" => run' = run]_vars

\* C10 witness: the second of three deep passes threw: one entry had been
\* collected, the third region was never passed to deepFn, nothing returned.
C10_Witness ==
    /\ run.pc = "failed"
    /\ run.error = Some("deepFn")
    /\ Len(run.selectedRegions) = 3
    /\ Len(run.deepResults) = 1
    /\ Len(SelectSeq(run.log, IsDeepFnCall)) = 2
    /\ run.result = None

(***************************************************************************)
(* VirtualObjectExcavator: claims C11 to C15.                              *)
(***************************************************************************)
\* the children the walk visits below a node: every entry of an object, the
\* sampled elements of an array
ChildrenOf(self, value, path) ==
    IF value.kind = "object" THEN
        [i \in 1..Len(value.entries) |->
            [path |-> FieldPath(path, value.entries[i][1]),
             value |-> value.entries[i][2]]]
    ELSE IF value.kind = "array" THEN
        [i \in 1..Len(Sampled(self, value)) |->
            [path |-> ElementPath(path, i - 1),
             value |-> Sampled(self, value)[i]]]
    ELSE <<>>

\* the nodes of a tree down to depth `limit`, parents before children
RECURSIVE NodesOf(_, _, _, _, _)
RECURSIVE NodesOfChildren(_, _, _, _, _)
NodesOfChildren(self, kids, i, depth, limit) ==
    IF i > Len(kids) THEN <<>>
    ELSE NodesOf(self, kids[i].value, kids[i].path, depth, limit)
         \o NodesOfChildren(self, kids, i + 1, depth, limit)

NodesOf(self, value, path, depth, limit) ==
    IF depth > limit THEN <<>>
    ELSE <<[path |-> path, depth |-> depth, value |-> value]>>
         \o NodesOfChildren(self, ChildrenOf(self, value, path), 1,
                            depth + 1, limit)

\* relationship r is the edge to the child reached by path segment seg
EdgeFor(r, seg) ==
    /\ r.kind = seg.kind
    /\ IF seg.kind = "field" THEN r.name = seg.name ELSE r.index = seg.index

Front(path) == SubSeq(path, 1, Len(path) - 1)

VoIds(result) ==
    {result.virtualObjects[i].id : i \in 1..Len(result.virtualObjects)}

\* C11: with maxDepth >= 0 the virtual objects of a result are exactly the
\* walked nodes at depth 0..maxDepth (none deeper), in walk order; every
\* walked child at depth maxDepth+1 has one relationship from its parent's
\* virtual object, and the `to` id of that relationship is the id of no
\* virtual object of the result.
C11_DepthTruncation ==
    (excavation.called /\ excavation.self.maxDepth >= 0) =>
        LET self == excavation.self
            result == excavation.result
            vos == result.virtualObjects
            rels == result.relationships
            nodes == NodesOf(self, RootOf(excavation.input), RootPath, 0,
                             self.maxDepth + 1)
            within == SelectSeq(nodes, LAMBDA n : n.depth <= self.maxDepth)
            beyond == SelectSeq(nodes, LAMBDA n : n.depth = self.maxDepth + 1)
        IN  /\ Len(vos) = Len(within)
            /\ \A i \in 1..Len(vos) :
                  /\ vos[i].path = within[i].path
                  /\ vos[i].type = TypeOf(within[i].value)
                  /\ Len(vos[i].path) - 1 <= self.maxDepth
            /\ \A b \in 1..Len(beyond) :
                  LET parent == CHOOSE i \in 1..Len(vos) :
                                    vos[i].path = Front(beyond[b].path)
                      edges == {j \in 1..Len(rels) :
                                   /\ rels[j].from = vos[parent].id
                                   /\ EdgeFor(rels[j], beyond[b].path[Len(beyond[b].path)])}
                  IN  /\ \E i \in 1..Len(vos) : vos[i].path = Front(beyond[b].path)
                      /\ Cardinality(edges) = 1
                      /\ \A j \in edges : rels[j].to \notin VoIds(result)

\* C11 witness: maxDepth = 1 on {"a":{"b":["s"]}}, a value nested to depth
\* 3: two virtual objects (depths 0 and 1) and two relationships, the second
\* of them, to "b" at depth 2, dangling.
C11_Witness ==
    /\ excavation.called
    /\ excavation.self.maxDepth = 1
    /\ excavation.input =
           JObj(<< <<"a", JObj(<< <<"b", JArr(<<JStr(<<"s">>)>>)>> >>)>> >>)
    /\ Len(excavation.result.virtualObjects) = 2
    /\ Len(excavation.result.relationships) = 2
    /\ excavation.result.relationships[2].name = "b"
    /\ excavation.result.relationships[2].to \notin VoIds(excavation.result)
    /\ excavation.result.relationships[1].to \in VoIds(excavation.result)

\* the value a path leads to in a tree, from segment i of the path on
RECURSIVE ValueAt(_, _, _)
ValueAt(value, path, i) ==
    IF i > Len(path) THEN value
    ELSE IF path[i].kind = "field"
         THEN ValueAt(Member(value, path[i].name), path, i + 1)
         ELSE ValueAt(value.items[path[i].index + 1], path, i + 1)

\* the total of a histogram's counts over the keys S
RECURSIVE SumCounts(_, _)
SumCounts(f, S) ==
    IF S = {} THEN 0
    ELSE LET x == CHOOSE x \in S : TRUE
         IN  f[x] + SumCounts(f, S \ {x})

\* path q lies strictly below path p
Below(q, p) == Len(q) > Len(p) /\ SubSeq(q, 1, Len(p)) = p

\* the i-th virtual object of the last result, if an array, used the first
\* min(length, maxArraySample) elements of its array and nothing else
ArraySampledAt(i) ==
    LET self == excavation.self
        result == excavation.result
        vos == result.virtualObjects
        vo == vos[i]
        node == ValueAt(RootOf(excavation.input), vo.path, 2)
        k == Min(Len(node.items), self.maxArraySample)
        out == SelectSeq(result.relationships, LAMBDA r : r.from = vo.id)
    IN  /\ SumCounts(vo.elementTypes, DOMAIN vo.elementTypes) = k
        /\ \A t \in DOMAIN vo.elementTypes :
              vo.elementTypes[t] =
                  Cardinality({j \in 1..k : TypeOf(node.items[j]) = t})
        /\ Len(out) = k
        /\ \A j \in 1..Len(out) :
              out[j].kind = "element" /\ out[j].index = j - 1
        /\ \A j \in 1..Len(vos) :
              Below(vos[j].path, vo.path) =>
                  vos[j].path[Len(vo.path) + 1].index < k

\* C12 as claimed, for every maxArraySample an excavator can be built with:
\* every array node walked uses exactly its first min(length,
\* maxArraySample) elements.
C12_ArraySamplingAnyLimit ==
    excavation.called =>
        \A i \in 1..Len(excavation.result.virtualObjects) :
            excavation.result.virtualObjects[i].type = "array" =>
                ArraySampledAt(i)

\* C12, amended: for a non-negative integer maxArraySample, every array node
\* walked uses only its first maxArraySample elements: the elementTypes
\* counts sum to min(length, maxArraySample), that many element
\* relationships are emitted with indices 0.. in order, and no element
\* beyond the sample has a virtual object or a relationship.
C12_ArraySampling ==
    (excavation.called /\ excavation.self.maxArraySample >= 0) =>
        \A i \in 1..Len(excavation.result.virtualObjects) :
            excavation.result.virtualObjects[i].type = "array" =>
                ArraySampledAt(i)

\* C12 witness: maxArraySample = 2 on [1,2,3,4]: elementTypes is {number: 2},
\* two element relationships (indices 0, 1), three virtual objects.
C12_Witness ==
    /\ excavation.called
    /\ excavation.self.maxArraySample = 2
    /\ excavation.input = JArr(<<JNum(1), JNum(2), JNum(3), JNum(4)>>)
    /\ Len(excavation.result.virtualObjects) = 3
    /\ excavation.result.virtualObjects[1].elementTypes = [t \in {"number"} |-> 2]
    /\ Len(excavation.result.relationships) = 2
    /\ excavation.result.relationships[2].index = 1

\* the keys of an object
KeysOf(value) == {value.entries[i][1] : i \in 1..Len(value.entries)}

\* C13: for an object-typed (non-array, non-null) value passed to excavate
\* with maxDepth >= 0, the first virtual object of the result describes that
\* value: category struct, type object, path '#', and a fields map with one
\* entry per key of the value giving the type of the key's value, whatever
\* the keys are (a key named 'value' included).
C13_RootIsDescribed ==
    (excavation.called /\ excavation.self.maxDepth >= 0
        /\ excavation.input.kind = "object") =>
        LET vos == excavation.result.virtualObjects
            input == excavation.input
        IN  /\ Len(vos) >= 1
            /\ vos[1].category = "struct"
            /\ vos[1].type = "object"
            /\ vos[1].path = RootPath
            /\ DOMAIN vos[1].fields = KeysOf(input)
            /\ \A k \in KeysOf(input) :
                  vos[1].fields[k] = TypeOf(Member(input, k))

\* every child of a node: every entry of an object, every element of an array
AllChildrenOf(value, path) ==
    IF value.kind = "object" THEN
        [i \in 1..Len(value.entries) |->
            [path |-> FieldPath(path, value.entries[i][1]),
             value |-> value.entries[i][2]]]
    ELSE IF value.kind = "array" THEN
        [i \in 1..Len(value.items) |->
            [path |-> ElementPath(path, i - 1), value |-> value.items[i]]]
    ELSE <<>>

\* every node of a tree, parents before children
RECURSIVE TreeOf(_, _, _)
RECURSIVE TreeOfChildren(_, _, _)
TreeOfChildren(kids, i, depth) ==
    IF i > Len(kids) THEN <<>>
    ELSE TreeOf(kids[i].value, kids[i].path, depth)
         \o TreeOfChildren(kids, i + 1, depth)

TreeOf(value, path, depth) ==
    <<[path |-> path, depth |-> depth, value |-> value]>>
    \o TreeOfChildren(AllChildrenOf(value, path), 1, depth + 1)

\* the tree lies within the excavator's limits
WithinLimits(self, nodes) ==
    \A i \in 1..Len(nodes) :
        /\ nodes[i].depth <= self.maxDepth
        /\ nodes[i].value.kind = "array" =>
              Len(nodes[i].value.items) <= self.maxArraySample

EndToEndInput ==
    JObj(<< <<"a", JNum(1)>>, <<"b", JArr(<<JNum(1), JNum(2), JNum(3)>>)>> >>)

\* one virtual object per node of the tree, one relationship per node but
\* the root, none dangling
OnePerNode(nodes, result) ==
    LET vos == result.virtualObjects
        rels == result.relationships
    IN  /\ Len(vos) = Len(nodes)
        /\ \A i \in 1..Len(vos) :
              /\ vos[i].path = nodes[i].path
              /\ vos[i].category =
                    IF nodes[i].value.kind \in {"object", "array"}
                    THEN "struct" ELSE "value"
        /\ Len(rels) = Len(vos) - 1
        /\ \A j \in 1..Len(rels) : rels[j].to \in VoIds(result)

\* C14: when the input tree lies within maxDepth and every array within
\* maxArraySample, the result has one virtual object per node of the input
\* (struct for objects and arrays, value for primitives and null) and one
\* relationship per non-root node, none dangling; {"a":1,"b":[1,2,3]} with
\* maxDepth 6 and maxArraySample 8 gives 6 virtual objects (2 struct,
\* 4 value) and 5 relationships.
C14_OneObjectPerNode ==
    excavation.called =>
        LET self == excavation.self
            result == excavation.result
            vos == result.virtualObjects
            nodes == TreeOf(excavation.input, RootPath, 0)
        IN  WithinLimits(self, nodes) =>
              /\ OnePerNode(nodes, result)
              /\ (excavation.input = EndToEndInput
                    /\ self.maxDepth = 6 /\ self.maxArraySample = 8) =>
                    /\ Len(vos) = 6
                    /\ Cardinality({i \in 1..6 : vos[i].category = "struct"}) = 2
                    /\ Cardinality({i \in 1..6 : vos[i].category = "value"}) = 4
                    /\ Len(result.relationships) = 5

\* no element occurs twice in the sequence
NoRepeat(seq) ==
    \A i, j \in 1..Len(seq) : seq[i] = seq[j] => i = j

\* the elements of a sequence
Range(seq) == {seq[i] : i \in 1..Len(seq)}

\* C15: over all excavate calls made so far, on any instances and in any
\* order, no two virtual objects share an id and no two relationships share
\* a `to` id; the ids issued to roots and to children (those of
\* depth-truncated children included) are pairwise distinct, and every
\* virtual object carries one of them.
C15_IdsAreDistinct ==
    /\ NoRepeat(emitted.vo)
    /\ NoRepeat(emitted.to)
    /\ NoRepeat(emitted.root \o emitted.to)
    /\ Range(emitted.vo) \subseteq Range(emitted.root \o emitted.to)

\* C15 witness: two calls on two different instances, the first with a
\* relationship to a depth-truncated child, the second with virtual objects
\* for its children, and an id of two base-36 digits among them.
C15_Witness ==
    /\ Len(emitted.by) = 2
    /\ emitted.by[1] # emitted.by[2]
    /\ \E i \in 1..Len(emitted.to) :
          /\ i <= Len(emitted.to) - Len(excavation.result.relationships)
          /\ emitted.to[i] \notin Range(emitted.vo)
    /\ Len(excavation.result.virtualObjects) >= 3
    /\ \E i \in 1..Len(emitted.vo) : Len(emitted.vo[i]) = 4

(***************************************************************************)
(* VirtualObjectScoreEngine: claims C16 to C20.                            *)
(***************************************************************************)
\* a score within [0,1]
InUnitInterval(x) == x.den > 0 /\ 0 <= x.num /\ x.num <= x.den

\* C16: every score returned by scoreSnapshot has stability in [0,1] and
\* novelty in [0,1], whatever the history held (nothing, one observation or
\* several) and whatever the clock read, a clock standing still or running
\* backwards included.
C16_ScoresInUnitInterval ==
    scoring.called =>
        \A i \in 1..Len(scoring.scores) :
            /\ InUnitInterval(scoring.scores[i].stability)
            /\ InUnitInterval(scoring.scores[i].novelty)

\* C16 witness: one call in which a virtual object is scored against a
\* history whose second observation carries an earlier timestamp than the
\* first (stability 0), and one at a clock reading before the last sighting
\* of a history of several observations (novelty 0).
C16_Witness ==
    /\ scoring.called
    /\ \E i \in 1..Len(scoring.scores) :
          LET e == scoring.evals[i] IN
          /\ Len(e.history) >= 2
          /\ e.history[2] < e.history[1]
          /\ scoring.scores[i].stability.num = 0
    /\ \E i \in 1..Len(scoring.scores) :
          LET e == scoring.evals[i] IN
          /\ Len(e.history) >= 2
          /\ e.reading.novelty < e.history[Len(e.history)]
          /\ scoring.scores[i].novelty.num = 0

\* the observations engine selfId had recorded for a key before the i-th
\* virtual object of the last call was scored
RecordedBefore(i) ==
    {j \in 1..scoring.evals[i].nObserved :
        observed[j].by = scoring.self /\ observed[j].key = scoring.evals[i].key}

\* C17 as claimed: novelty is never evaluated against an empty observation
\* history.
C17_NoveltyNeverOnEmptyHistory ==
    scoring.called =>
        \A i \in 1..Len(scoring.evals) : Len(scoring.evals[i].history) # 0

\* C17, amended: novelty is evaluated against an empty observation history
\* exactly when the engine holds no observation of the virtual object's key
\* at that moment, which is the first time the engine scores the key (and
\* every time when historyWindow <= 0); the empty-history branch is taken
\* then, with novelty 0.5, and the one-observation branch (novelty 1.0)
\* exactly on a history of one.
C17_EmptyHistoryOnFirstSighting ==
    scoring.called =>
        \A i \in 1..Len(scoring.evals) :
            LET e == scoring.evals[i] IN
            /\ Len(e.history) = 0 <=>
                  \/ RecordedBefore(i) = {}
                  \/ scorers[scoring.self].historyWindow <= 0
            /\ Len(e.history) = 0 => scoring.scores[i].novelty = Frac(1, 2)
            /\ Len(e.history) = 1 => scoring.scores[i].novelty = Frac(1, 1)

\* C17 witness: a snapshot with two virtual objects of one key, scored by an
\* engine that never saw the key: the first is scored against an empty
\* history (novelty 0.5), the second against a history of one (novelty 1.0).
C17_Witness ==
    /\ scoring.called
    /\ Len(scoring.evals) = 2
    /\ scoring.evals[1].key = scoring.evals[2].key
    /\ scoring.evals[1].history = <<>>
    /\ scoring.scores[1].novelty = Frac(1, 2)
    /\ Len(scoring.evals[2].history) = 1
    /\ scoring.scores[2].novelty = Frac(1, 1)

\* C18: with historyWindow >= 0, every key's observation history has at
\* most historyWindow entries after any sequence of scoreSnapshot calls;
\* scoring one virtual object appends exactly one observation (the clock
\* reading of _updateHistory) to its key's history and, when that exceeds
\* the capacity, removes exactly the oldest entry.
C18_HistoryWithinWindow ==
    /\ \A selfId \in DOMAIN scorers :
          scorers[selfId].historyWindow >= 0 =>
              \A key \in DOMAIN scorers[selfId].objectHistory :
                  Len(scorers[selfId].objectHistory[key])
                      <= scorers[selfId].historyWindow
    /\ (scoring.called /\ scorers[scoring.self].historyWindow >= 0) =>
          \A i \in 1..Len(scoring.evals) :
              LET e == scoring.evals[i]
                  appended == e.history \o <<e.reading.update>>
              IN  e.after =
                      IF Len(appended) > scorers[scoring.self].historyWindow
                      THEN Tail(appended)
                      ELSE appended

\* C18 witness: an engine with historyWindow = 2 scores a virtual object
\* whose key already has two observations with different timestamps: the
\* history becomes the second of them followed by the new one.
C18_Witness ==
    /\ scoring.called
    /\ scorers[scoring.self].historyWindow = 2
    /\ \E i \in 1..Len(scoring.evals) :
          LET e == scoring.evals[i] IN
          /\ Len(e.history) = 2
          /\ e.history[1] # e.history[2]
          /\ e.after = <<e.history[2], e.reading.update>>
          /\ e.reading.update # e.history[1]

\* the observations recorded for the key of the i-th virtual object of the
\* last call, by any engine of the process, before it was scored
RecordedBeforeByAny(i) ==
    {j \in 1..scoring.evals[i].nObserved :
        observed[j].key = scoring.evals[i].key}

\* the largest member of a non-empty set of numbers
Latest(S) == CHOOSE j \in S : \A k \in S : k <= j

\* C19: the score history is process-wide: when an engine scores a key, the
\* most recent observation recorded for that key by any engine of the
\* process (one with room for it: historyWindow >= 1) is the newest entry of
\* the history it uses.
C19_HistoryIsProcessWide ==
    scoring.called =>
        \A i \in 1..Len(scoring.evals) :
            LET e == scoring.evals[i]
                S == RecordedBeforeByAny(i)
            IN  (S # {} /\ scorers[observed[Latest(S)].by].historyWindow >= 1) =>
                    /\ e.history # <<>>
                    /\ e.history[Len(e.history)] = observed[Latest(S)].at

\* the last call returned one score per virtual object, in order, each with
\* the id and the category of its virtual object ('unknown' standing for a
\* virtual object without category), and left the snapshot as it was
OneScorePerObject ==
    scoring.called =>
        LET vos == scoring.snapshot.result.virtualObjects IN
        /\ Len(scoring.scores) = Len(vos)
        /\ \A i \in 1..Len(vos) :
              /\ scoring.scores[i].id = vos[i].id
              /\ scoring.scores[i].category =
                    IF vos[i].category # None
                    THEN vos[i].category[1] ELSE Str("unknown")
        /\ scoring.snapshotAfter = scoring.snapshot

\* a step changes nothing but the history map of the engine that was called
OnlyHistoryChanges ==
    nScoreCalls' # nScoreCalls =>
        /\ DOMAIN scorers' = DOMAIN scorers
        /\ \A selfId \in DOMAIN scorers :
              /\ scorers'[selfId].historyWindow = scorers[selfId].historyWindow
              /\ selfId # scoring'.self => scorers'[selfId] = scorers[selfId]
        /\ UNCHANGED <<sessionVars, engineVars, excavatorVars, guardVars>>

\* C20: scoreSnapshot returns exactly one score per virtual object of
\* snapshot.result.virtualObjects, in the same order, the i-th score with
\* the id and category of the i-th virtual object; it changes only the
\* score history (of the engine called) and leaves the snapshot unchanged.
C20_OneScorePerObject ==
    []OneScorePerObject /\ [][OnlyHistoryChanges]_vars

\* C20 witness: a snapshot of two virtual objects, the first without
\* category: two scores, for v3 ('unknown') and v1 ('struct') in that
\* order, and a history for each of the two keys.
C20_Witness ==
    /\ scoring.called
    /\ scoring.snapshot.result.virtualObjects = <<VoSigned, VoStructA>>
    /\ Len(scoring.scores) = 2
    /\ scoring.scores[1].id = "v3"
    /\ scoring.scores[1].category = Str("unknown")
    /\ scoring.scores[2].id = "v1"
    /\ scoring.scores[2].category = Str("struct")
    /\ {MakeKey(VoSigned), MakeKey(VoStructA)}
          \subseteq DOMAIN scorers[scoring.self].objectHistory


(***************************************************************************)
(* VirtualObjectScoreEngine: claims C21, C25 and C28.                      *)
(***************************************************************************)
\* the members of a virtual object that are present and not empty, among
\* selector, ctor and category, in that order
NamedBy(vo) ==
    SelectSeq(<<vo.selector, vo.ctor, vo.category>>,
              LAMBDA opt : opt # None /\ opt[1] # <<>>)

\* the first non-empty of selector, ctor, category names a button
NamesButton(vo) ==
    /\ NamedBy(vo) # <<>>
    /\ \E i \in 1..Len(NamedBy(vo)[1][1]) :
          NamedBy(vo)[1][1][i] \in {"button", "Button"}

HasCategory(vo, names) == \E n \in names : vo.category = Some(<<n>>)

\* the hint the ordered rules give
HintByRules(vo) ==
    CASE NamesButton(vo) -> "ui-action"
      [] ~NamesButton(vo) /\ HasCategory(vo, {"dom-tag", "dom-motif"})
            -> "dom-structure"
      [] ~NamesButton(vo) /\ HasCategory(vo, {"struct", "api-schema"})
            -> "api-schema"
      [] OTHER -> "misc"

\* C21: the reuseHint of every score is decided by ordered rules: 'ui-action'
\* if the first non-empty of selector, ctor, category, lower-cased, contains
\* 'button', whatever the category; otherwise 'dom-structure' for category
\* dom-tag or dom-motif; otherwise 'api-schema' for category struct or
\* api-schema; otherwise 'misc'.
C21_ReuseHintRules ==
    scoring.called =>
        \A i \in 1..Len(scoring.scores) :
            scoring.scores[i].reuseHint
              = HintByRules(scoring.snapshot.result.virtualObjects[i])

\* C21 witness: one call scored a struct whose ctor names a button as
\* 'ui-action' and a dom-motif whose selector names none, in front of a ctor
\* that does, as 'dom-structure'.
C21_Witness ==
    /\ scoring.called
    /\ scoring.snapshot.result.virtualObjects = <<VoCtorButton, VoShadowed>>
    /\ scoring.scores[1].reuseHint = "ui-action"
    /\ scoring.scores[2].reuseHint = "dom-structure"

\* the other cases of C21: a button named by the category alone, an
\* api-schema, and a virtual object without any of the three members
C21_WitnessOtherRules ==
    /\ scoring.called
    /\ scoring.snapshot.result.virtualObjects = <<VoSchema, VoButtonCategory>>
    /\ scoring.scores[1].reuseHint = "api-schema"
    /\ scoring.scores[2].reuseHint = "ui-action"


\* the keys the engine e has looked up so far
KeysLookedUpBy(e) ==
    {observed[i].key : i \in {j \in 1..Len(observed) : observed[j].by = e}}

\* the capacity of a history of the engine e
CapacityOf(e) ==
    IF scorers[e].historyWindow > 0 THEN scorers[e].historyWindow ELSE 0

\* C25: a key, once looked up by a score engine, is never removed from that
\* engine's history map: every key looked up so far is in the map, no
\* scoreSnapshot call removes a key, and each key's history holds at most
\* historyWindow observations (none for a historyWindow below 1).
C25_KeysOnlyGrow ==
    /\ [](\A e \in DOMAIN scorers :
             /\ KeysLookedUpBy(e) \subseteq DOMAIN scorers[e].objectHistory
             /\ \A key \in DOMAIN scorers[e].objectHistory :
                   Len(scorers[e].objectHistory[key]) <= CapacityOf(e))
    /\ [][\A e \in DOMAIN scorers :
             DOMAIN scorers[e].objectHistory
               \subseteq DOMAIN scorers'[e].objectHistory]_vars

\* C25 witness: an engine with historyWindow = 1 has scored two virtual
\* objects of one key and then, in a later call, one of another key: both
\* keys are in its map, and the first one's history, not touched by the
\* later call, holds the one observation the window allows.
C25_Witness ==
    /\ scoring.called
    /\ scorers[scoring.self].historyWindow = 1
    /\ Cardinality(DOMAIN scorers[scoring.self].objectHistory) = 2
    /\ \E key \in DOMAIN scorers[scoring.self].objectHistory :
          /\ \A i \in 1..Len(scoring.evals) : scoring.evals[i].key # key
          /\ Cardinality({j \in 1..Len(observed) :
                            observed[j].by = scoring.self
                              /\ observed[j].key = key}) = 2
          /\ Len(scorers[scoring.self].objectHistory[key]) = 1


\* the observations of `key` the engine e had made before the i-th virtual
\* object of the last call was scored, oldest first
PriorSightings(e, key, i) ==
    LET n == scoring.evals[i].nObserved
        idx == {j \in 1..n : observed[j].by = e /\ observed[j].key = key}
    IN  [k \in 1..Cardinality(idx) |->
            observed[CHOOSE j \in idx :
                        Cardinality({m \in idx : m <= j}) = k].at]

\* x clamped into [0, 1]
Clamp01(x) ==
    IF x.num < 0 THEN Frac(0, 1)
    ELSE IF x.num > x.den THEN Frac(1, 1)
    ELSE x

\* the scores the sighting count gives: `prior` holds the earlier sightings
\* of the key, `kept` those of them a history of the engine still holds
ScoresBySightings(prior, kept, now) ==
    IF Len(prior) = 0 THEN [stability |-> Frac(1, 5), novelty |-> Frac(1, 2)]
    ELSE IF Len(prior) = 1 THEN [stability |-> Frac(1, 5), novelty |-> Frac(1, 1)]
    ELSE [stability |->
             Clamp01(Frac(kept[Len(kept)] - kept[1], (Len(kept) - 1) * DayMs)),
          novelty |-> Clamp01(Frac(now - kept[Len(kept)], WeekMs))]

\* the scores of the last call follow the sighting counts, on engine e
FollowsSightings(e) ==
    \A i \in 1..Len(scoring.scores) :
        LET prior == PriorSightings(e, scoring.evals[i].key, i)
            kept == LastK(prior, Min(Len(prior), scorers[e].historyWindow))
            want == ScoresBySightings(prior, kept, scoring.evals[i].reading.novelty)
        IN  /\ scoring.scores[i].stability = want.stability
            /\ scoring.scores[i].novelty = want.novelty

\* C28 as claimed, for every engine: the first virtual object scored for a
\* key gets stability 0.2 and novelty 0.5, the second 0.2 and 1.0, and from
\* the third on both scores are interval/age based.
C28_ScoresFollowSightingCountAnyWindow ==
    scoring.called => FollowsSightings(scoring.self)

\* C28, amended: on an engine with historyWindow >= 2 the scores of a
\* virtual object come from its key's history before the observation is
\* appended: stability 0.2 and novelty 0.5 for the first virtual object the
\* engine scores for a key, 0.2 and 1.0 for the second, and from the third
\* on the average interval of the retained observations over a day and the
\* age of the newest one over a week, clamped into [0,1]; repeated keys of
\* one snapshot advance through this sequence within the call.
C28_ScoresFollowSightingCount ==
    (scoring.called /\ scorers[scoring.self].historyWindow >= 2) =>
        FollowsSightings(scoring.self)

\* C28 witness: an engine with historyWindow = 2 scores the same key four
\* times in two calls of two virtual objects each: in the second call the
\* third sighting is scored from the two before it, the fourth from the two
\* sightings kept, half a day apart (stability 1/2), and both novelties are
\* ages of less than a week.
C28_Witness ==
    /\ scoring.called
    /\ scorers[scoring.self].historyWindow = 2
    /\ Len(scoring.scores) = 2
    /\ scoring.evals[1].key = scoring.evals[2].key
    /\ Len(PriorSightings(scoring.self, scoring.evals[1].key, 1)) = 2
    /\ Len(PriorSightings(scoring.self, scoring.evals[2].key, 2)) = 3
    /\ Len(scoring.evals[2].history) = 2
    /\ scoring.scores[2].stability = Frac(HalfDayMs, DayMs)
    /\ \A i \in 1..2 :
          /\ scoring.scores[i].novelty.num > 0
          /\ scoring.scores[i].novelty.num < scoring.scores[i].novelty.den


(***************************************************************************)
(* ExcavationSessionManager: claims C22 to C24, C26, C27, C29 and C30.     *)
(***************************************************************************)
\* the snapshots of `before` that are still in `after` are unchanged, when
\* at most one snapshot was pushed and at most the oldest was shifted out
KeptUnchanged(before, after) ==
    \E k \in 0..1 :
        /\ Len(after) = Len(before) + 1 - k
        /\ \A i \in 1..(Len(before) - k) : after[i] = before[i + k]

\* C22: the snapshot addSnapshot returns carries exactly the
\* ExcavationResult and the label passed in, and it is the newest entry of
\* the log (if the log keeps any); no call of startSession, addSnapshot,
\* getSessionSummary or listSessions changes the id, label, capturedAt,
\* metrics or result of a snapshot that stays in a log: a log changes only
\* by the push and the shift of an addSnapshot on its own session.
C22_SnapshotsAreImmutable ==
    [][ /\ (last'.op = "addSnapshot" /\ last'.outcome = "ok") =>
             /\ \A c \in {a \in AddCalls : a.sid = last'.sid} :
                   AddSnapshot(c.sid, c.result, c.label, c.now, "none") =>
                       /\ last'.ret[1].result = c.result
                       /\ last'.ret[1].label = c.label
             /\ LET log == sessions'[last'.sid].snapshots
                IN  log # <<>> => log[Len(log)] = last'.ret[1]
        /\ \A sid \in (DOMAIN sessions) \cap (DOMAIN sessions') :
              IF last'.op = "addSnapshot" /\ last'.sid = sid
              THEN KeptUnchanged(sessions[sid].snapshots, sessions'[sid].snapshots)
              ELSE sessions'[sid].snapshots = sessions[sid].snapshots ]_vars

\* C22 witness: with maxSnapshots = 2 a third snapshot was added to a
\* session: the second and the third entry of before are the two entries of
\* the log, as they were returned, and the session was read in between.
C22_Witness ==
    /\ last.op = "getSessionSummary" /\ last.outcome = "ok"
    /\ maxSnapshots = 2
    /\ hist[last.sid].startedEmpty /\ hist[last.sid].clean
    /\ Len(hist[last.sid].added) = 3
    /\ sessions[last.sid].snapshots
         = <<hist[last.sid].added[2], hist[last.sid].added[3]>>
    /\ hist[last.sid].added[2].result = ResultB
    /\ hist[last.sid].added[3].result = ResultC


\* C23: getSessionSummary and listSessions are read-only: the session map
\* (every session's log, summary and metadata, and the set of sessions) and
\* the catalog are the same after the call; a successful getSessionSummary
\* lists one entry {id, label, capturedAt, metrics} per snapshot in the
\* log, in log order, and listSessions returns exactly one entry per session
\* in the map.
C23_ReadsAreReadOnly ==
    [][ (last'.op \in {"getSessionSummary", "listSessions"}) =>
          /\ sessions' = sessions
          /\ db' = db
          /\ (last'.op = "getSessionSummary" /\ last'.outcome = "ok") =>
                LET log == sessions[last'.sid].snapshots
                    listed == last'.ret[1].snapshots
                IN  /\ Len(listed) = Len(log)
                    /\ \A i \in 1..Len(log) :
                          /\ DOMAIN listed[i]
                               = {"id", "label", "capturedAt", "metrics"}
                          /\ listed[i].id = log[i].id
                          /\ listed[i].label = log[i].label
                          /\ listed[i].capturedAt = log[i].capturedAt
                          /\ listed[i].metrics = log[i].metrics
          /\ (last'.op = "listSessions") =>
                LET list == last'.ret[1]
                IN  /\ \A sid \in DOMAIN sessions :
                          \E entry \in DOMAIN list :
                              /\ entry.id = sid
                              /\ list[entry] = 1
                              /\ \A other \in DOMAIN list :
                                    other.id = sid => other = entry
                    /\ \A entry \in DOMAIN list : entry.id \in DOMAIN sessions
      ]_vars

\* C23 witness: getSessionSummary on a session whose log holds two
\* snapshots with different labels and metrics, beside a second session.
C23_Witness ==
    /\ last.op = "getSessionSummary" /\ last.outcome = "ok"
    /\ Cardinality(DOMAIN sessions) = 2
    /\ Len(last.ret[1].snapshots) = 2
    /\ last.ret[1].snapshots[1].label # last.ret[1].snapshots[2].label
    /\ last.ret[1].snapshots[1].metrics # last.ret[1].snapshots[2].metrics
    /\ last.ret[1].snapshots[1].id = sessions[last.sid].snapshots[1].id


\* C24: a session in the map stays there for the rest of the process (every
\* step but the start of a new process), with the same id and createdAt,
\* and addSnapshot and getSessionSummary for its id do not fail with the
\* unknown-session error.
C24_SessionStaysActive ==
    [][ restarted' = restarted =>
          \A sid \in DOMAIN sessions :
              /\ sid \in DOMAIN sessions'
              /\ sessions'[sid].id = sessions[sid].id
              /\ sessions'[sid].id = sid
              /\ sessions'[sid].createdAt = sessions[sid].createdAt
              /\ (last'.op \in {"addSnapshot", "getSessionSummary"}
                    /\ last'.sid = sid) => last'.outcome # "unknown-session"
      ]_vars

\* C24 witness: a session created at clock reading 0 has a snapshot in its
\* log; a later startSession for its id, at another clock reading and with
\* other metadata, found it in the map with createdAt unchanged.
C24_Witness ==
    /\ last.op = "startSession" /\ last.outcome = "existing"
    /\ last.sid = "s1" /\ last.args = <<"m2">>
    /\ sessions["s1"].id = "s1"
    /\ sessions["s1"].createdAt = 0
    /\ sessions["s1"].metadata = "m1"
    /\ sessions["s1"].snapshots # <<>>
    /\ "s2" \in DOMAIN sessions


\* C26: within one session, the snapshots returned by addSnapshot so far
\* have pairwise different ids.
C26_SnapshotIdsUnique ==
    \A sid \in DOMAIN hist :
        \A i, j \in 1..Len(hist[sid].added) :
            i # j => hist[sid].added[i].id # hist[sid].added[j].id


\* C27: an addSnapshot that fails, on an unknown session or in the
\* persistence collaborator's saveSnapshot, leaves every session as it was:
\* the snapshot log, the summary totals and driftEvents are unchanged.
C27_FailedAddChangesNothing ==
    [][ (last'.op = "addSnapshot" /\ last'.outcome # "ok") =>
          sessions' = sessions ]_vars


\* driftEvents of the session sid
DriftEventsOf(map, sid) == map[sid].summary.driftEvents

\* C29: within a process driftEvents of a session never decreases, changes
\* only in an addSnapshot on that session and then by at most 1 (so an
\* eviction does not lower it); for a session started with an empty log it
\* is at most the number of successful addSnapshot calls minus 1 (0 before
\* the first), and it is 0 when maxSnapshots <= 1.
C29_DriftEventsCumulative ==
    [][ restarted' = restarted =>
          \A sid \in DOMAIN sessions' :
              LET before == IF sid \in DOMAIN sessions
                            THEN DriftEventsOf(sessions, sid) ELSE 0
                  after == DriftEventsOf(sessions', sid)
                  succeeded == Len(hist'[sid].added)
              IN  /\ after >= before
                  /\ after <= before + 1
                  /\ after # before =>
                        (last'.op = "addSnapshot" /\ last'.sid = sid)
                  /\ hist'[sid].startedEmpty =>
                        /\ after <= (IF succeeded = 0 THEN 0 ELSE succeeded - 1)
                        /\ maxSnapshots <= 1 => after = 0 ]_vars


\* C30: an addSnapshot on one session, successful or not, leaves the
\* snapshot log, summary (driftEvents included) and metadata of every other
\* session of the manager unchanged, and a startSession leaves every
\* session that was in the map unchanged.
C30_OtherSessionsUntouched ==
    [][ /\ last'.op = "addSnapshot" =>
             \A other \in (DOMAIN sessions) \ {last'.sid} :
                 /\ other \in DOMAIN sessions'
                 /\ sessions'[other] = sessions[other]
        /\ last'.op = "startSession" =>
             \A sid \in DOMAIN sessions :
                 /\ sid \in DOMAIN sessions'
                 /\ sessions'[sid] = sessions[sid] ]_vars

\* C30 witness: an addSnapshot on one session evicted a snapshot and raised
\* its totals while another session holds a snapshot of its own.
C30_Witness ==
    /\ last.op = "addSnapshot" /\ last.outcome = "ok"
    /\ Len(hist[last.sid].added) > Len(sessions[last.sid].snapshots)
    /\ sessions[last.sid].snapshots # <<>>
    /\ \E other \in (DOMAIN sessions) \ {last.sid} :
          /\ sessions[other].snapshots # <<>>
          /\ sessions[other].summary.totalVirtualObjects > 0
          /\ sessions[other].snapshots[1].id[1] = other


(***************************************************************************)
(* VirtualObjectExcavator: claims C31 and C35.                             *)
(***************************************************************************)
\* the positions in virtualObjects of the virtual objects with the id `id`
PositionsOf(result, id) ==
    {i \in 1..Len(result.virtualObjects) : result.virtualObjects[i].id = id}

\* the relationship has no virtual object at its `to` end
Dangling(result, rel) == PositionsOf(result, rel.to) = {}

\* C31: in every result each relationship's `from` is the id of a struct
\* virtual object of the result, which stands before the virtual object of
\* its `to` (parents before children); no two relationships share a `to`;
\* every virtual object but the root is the `to` of exactly one
\* relationship; and a `to` without a virtual object belongs to a child
\* whose depth, one more than its parent's, exceeds maxDepth.
C31_EdgesFormTree ==
    excavation.called =>
        LET result == excavation.result
            vos == result.virtualObjects
            rels == result.relationships
        IN  /\ \A r \in 1..Len(rels) :
                  /\ \E p \in PositionsOf(result, rels[r].from) :
                        /\ vos[p].category = "struct"
                        /\ \A c \in PositionsOf(result, rels[r].to) : p < c
                        /\ Dangling(result, rels[r]) =>
                              Len(vos[p].path) > excavation.self.maxDepth
                  /\ \A q \in 1..Len(rels) : q # r => rels[q].to # rels[r].to
            /\ \A i \in 1..Len(vos) :
                  IF vos[i].id = excavation.rootId
                  THEN \A r \in 1..Len(rels) : rels[r].to # vos[i].id
                  ELSE Cardinality({r \in 1..Len(rels) : rels[r].to = vos[i].id}) = 1

\* C31 witness: a result in which a struct below the root is the `from` of
\* a relationship whose `to` has no virtual object, beside a relationship
\* whose two ends both have one.
C31_Witness ==
    /\ excavation.called
    /\ LET result == excavation.result
           rels == result.relationships
       IN  \E a, b \in 1..Len(rels) :
              /\ rels[a].from = excavation.rootId
              /\ rels[a].to = rels[b].from
              /\ ~Dangling(result, rels[a])
              /\ Dangling(result, rels[b])
              /\ rels[b].kind = "field"


\* the i-th virtual object of the last result, if a value object, carries
\* as valuePreview what the spec says of the value at its path
PreviewAsSpecified(i) ==
    LET vo == excavation.result.virtualObjects[i]
        x == ValueAt(RootOf(excavation.input), vo.path, 2)
        preview == vo.valuePreview
    IN  vo.category = "value" =>
          /\ x.kind \in {"number", "boolean", "null"} => preview = x
          /\ (x.kind = "string" /\ Len(x.v) <= 64) => preview = x
          /\ (x.kind = "string" /\ Len(x.v) > 64) =>
                /\ preview.kind = "string"
                /\ Len(preview.v) = 64
                /\ SubSeq(preview.v, 1, 61) = SubSeq(x.v, 1, 61)
                /\ SubSeq(preview.v, 62, 64) = <<".", ".", ".">>
          /\ x.kind \notin {"number", "boolean", "null", "string"}
                => preview = JNull
          /\ preview.kind = "string" => Len(preview.v) <= 64

\* C35: the valuePreview of a value virtual object is the value itself for
\* a number, a boolean, null and a string of at most 64 characters; the
\* first 61 characters followed by '...' (64 characters) for a longer
\* string; null for any other value; no preview string is longer than 64
\* characters.
C35_PreviewBounded ==
    excavation.called =>
        \A i \in 1..Len(excavation.result.virtualObjects) :
            PreviewAsSpecified(i)

\* C35 witness: an array of a 70-character string and undefined was
\* excavated: the string is previewed by 61 characters and the marker,
\* undefined by null.
C35_Witness ==
    /\ excavation.called
    /\ excavation.input = JArr(<<JStr(Text(70)), JUndefined>>)
    /\ Len(excavation.result.virtualObjects) = 3
    /\ excavation.result.virtualObjects[2].valuePreview
         = JStr(Text(61) \o <<".", ".", ".">>)
    /\ excavation.result.virtualObjects[3].type = "undefined"
    /\ excavation.result.virtualObjects[3].valuePreview = JNull

\* C35, the boundary: a string of exactly 64 characters is its own preview,
\* one of 65 characters is cut to 64
C35_WitnessBoundary ==
    /\ excavation.called
    /\ excavation.input
         = JObj(<< <<"s", JStr(Text(64))>>, <<"t", JStr(Text(65))>> >>)
    /\ Len(excavation.result.virtualObjects) = 3
    /\ excavation.result.virtualObjects[2].valuePreview = JStr(Text(64))
    /\ excavation.result.virtualObjects[3].valuePreview
         = JStr(Text(61) \o <<".", ".", ".">>)

(***************************************************************************)
(* ExcavationSessionManager: claim C32.                                    *)
(***************************************************************************)
\* the length of an optional list, 0 when the list is absent
LengthOrZero(opt) == IF opt = None THEN 0 ELSE Len(opt[1])

\* the two snapshots differ in virtual-object or relationship count
CountsDiffer(a, b) ==
    \/ a.metrics.virtualObjects # b.metrics.virtualObjects
    \/ a.metrics.relationships # b.metrics.relationships

\* C32: the snapshot a successful addSnapshot returns has as metrics the
\* lengths of the passed result's virtualObjects, relationships and
\* domSheets lists, the last being 0 when the result has no domSheets list;
\* the log afterwards is the old log with the snapshot appended and then,
\* if that is longer than maxSnapshots, without its oldest entry; the
\* summary totals are the sums over that log; and driftEvents has grown by
\* 1 exactly if the newest two entries of that log differ in count.
C32_AddSnapshotSteps ==
    [][ (last'.op = "addSnapshot" /\ last'.outcome = "ok") =>
          LET sid == last'.sid
              snapshot == last'.ret[1]
              appended == Append(sessions[sid].snapshots, snapshot)
              log == IF Len(appended) > maxSnapshots THEN Tail(appended)
                     ELSE appended
              n == Len(log)
              after == sessions'[sid]
          IN  /\ \A c \in {a \in AddCalls : a.sid = sid} :
                    AddSnapshot(c.sid, c.result, c.label, c.now, "none") =>
                        /\ snapshot.metrics.virtualObjects
                             = Len(c.result.virtualObjects)
                        /\ snapshot.metrics.relationships
                             = Len(c.result.relationships)
                        /\ snapshot.metrics.domSheets
                             = LengthOrZero(c.result.domSheets)
                        /\ DOMAIN snapshot.metrics
                             = {"virtualObjects", "relationships", "domSheets"}
              /\ after.snapshots = log
              /\ after.summary.totalVirtualObjects = TotalOf(log, "virtualObjects")
              /\ after.summary.totalRelationships = TotalOf(log, "relationships")
              /\ after.summary.domSheets = TotalOf(log, "domSheets")
              /\ after.summary.driftEvents =
                    sessions[sid].summary.driftEvents
                      + (IF n >= 2 /\ CountsDiffer(log[n], log[n - 1])
                         THEN 1 ELSE 0) ]_vars

\* C32 witness: a result without a domSheets list was added to a log at
\* capacity: its domSheets metric is 0, the oldest snapshot is gone, and the
\* drift against the snapshot before it was counted.
C32_Witness ==
    /\ last.op = "addSnapshot" /\ last.outcome = "ok"
    /\ last.ret[1].result.domSheets = None
    /\ last.ret[1].metrics
         = [virtualObjects |-> 2, relationships |-> 0, domSheets |-> 0]
    /\ hist[last.sid].startedEmpty /\ hist[last.sid].clean
    /\ Len(hist[last.sid].added) > Len(sessions[last.sid].snapshots)
    /\ Len(sessions[last.sid].snapshots) = 2
    /\ sessions[last.sid].summary.driftEvents = 2
    /\ sessions[last.sid].summary.domSheets = 1


(***************************************************************************)
(* VirtualObjectScoreEngine: claims C33 and C34.                           *)
(***************************************************************************)
\* the sum of the gaps between consecutive observations, from the i-th on
RECURSIVE GapsFrom(_, _)
GapsFrom(history, i) ==
    IF i >= Len(history) THEN 0
    ELSE (history[i + 1] - history[i]) + GapsFrom(history, i + 1)

\* newest minus oldest observation
SpanOf(history) == history[Len(history)] - history[1]

\* every clock reading is a whole number of half days: a fraction over
\* days, in half days
InHalfDays(x) ==
    IF x.den % HalfDayMs = 0
    THEN Frac(x.num \div HalfDayMs, x.den \div HalfDayMs)
    ELSE x

\* x <= y for two fractions
FracLeq(x, y) ==
    InHalfDays(x).num * InHalfDays(y).den <= InHalfDays(y).num * InHalfDays(x).den

\* the mean gap of g is at most the mean gap of h
MeanGapLeq(g, h) ==
    (SpanOf(g) \div HalfDayMs) * (Len(h) - 1)
      <= (SpanOf(h) \div HalfDayMs) * (Len(g) - 1)

\* C33: for a history of n >= 2 observations the sum of the n-1 gaps is
\* newest minus oldest, and stability is that difference over (n-1) days,
\* clamped into [0,1]: 0 for a negative mean gap, exactly 1 once the mean
\* gap reaches 24h; of two histories the one with the larger mean gap has
\* the stability that is not smaller.
C33_StabilityIsMeanGap ==
    scoring.called =>
        \A i \in 1..Len(scoring.scores) :
            LET history == scoring.evals[i].history
                n == Len(history)
                stability == scoring.scores[i].stability
            IN  n >= 2 =>
                  /\ GapsFrom(history, 1) = SpanOf(history)
                  /\ SpanOf(history) < 0 => stability.num = 0
                  /\ (0 <= SpanOf(history) /\ SpanOf(history) <= (n - 1) * DayMs)
                        => stability = Frac(SpanOf(history), (n - 1) * DayMs)
                  /\ SpanOf(history) >= (n - 1) * DayMs
                        => stability.num = stability.den
                  /\ \A j \in 1..Len(scoring.scores) :
                        (Len(scoring.evals[j].history) >= 2
                           /\ MeanGapLeq(history, scoring.evals[j].history))
                        => FracLeq(stability, scoring.scores[j].stability)

\* C33 witness: one call scores a key against the history (1 day, 0, 1 day),
\* whose gaps of minus a day and plus a day cancel (stability 0), after
\* having scored it against (1 day, 0), whose mean gap is negative.
C33_Witness ==
    /\ scoring.called
    /\ Len(scoring.scores) = 2
    /\ scoring.evals[1].history = <<DayMs, 0>>
    /\ scoring.evals[2].history = <<DayMs, 0, DayMs>>
    /\ scoring.scores[1].stability = Frac(0, 1)
    /\ scoring.scores[2].stability = Frac(0, 2 * DayMs)

\* C33, the upper end: a history of three observations whose mean gap is
\* more than a day has stability exactly 1
C33_WitnessSaturated ==
    /\ scoring.called
    /\ \E i \in 1..Len(scoring.scores) :
          /\ Len(scoring.evals[i].history) = 3
          /\ SpanOf(scoring.evals[i].history) > 2 * DayMs
          /\ scoring.scores[i].stability = Frac(1, 1)


\* the category of a virtual object, 'unknown' when it has none
IdentityCategory(vo) ==
    IF vo.category = None \/ vo.category = Some(<<>>) THEN <<"unknown">>
    ELSE vo.category[1]

\* the signature of a virtual object: the signature string, else the
\* serialization of fields, else of an empty map
IdentitySignature(vo) ==
    IF vo.signature # None THEN vo.signature[1]
    ELSE IF vo.fields # None THEN StringifyMap(vo.fields[1])
    ELSE <<"{", "}">>

SameIdentity(a, b) ==
    /\ IdentityCategory(a) = IdentityCategory(b)
    /\ IdentitySignature(a) = IdentitySignature(b)

HasColon(s) == \E i \in 1..Len(s) : s[i] = ":"

\* the virtual objects of the last call and the key each was scored under
ScoredVo(i) == scoring.snapshot.result.virtualObjects[i]
ScoredKey(i) == scoring.evals[i].key

\* built by the excavator: a category, and neither signature nor fields
ExcavatorBuilt(vo, category) ==
    /\ vo.category = Some(<<category>>)
    /\ vo.signature = None
    /\ vo.fields = None

\* the excavator-built virtual objects of a category are all scored under
\* the key category + ':{}'
OneKeyPerCategory ==
    \A i \in 1..Len(scoring.scores) :
        \A category \in {"value", "struct"} :
            ExcavatorBuilt(ScoredVo(i), category)
                => ScoredKey(i) = <<category, ":", "{", "}">>

\* C34 as claimed: two virtual objects of a call are scored against the
\* same history exactly when they have the same category and the same
\* signature, and the excavator's value and array virtual objects fall onto
\* the keys 'value:{}' and 'struct:{}'.
C34_SameHistoryIffSameIdentity ==
    scoring.called =>
        /\ \A i, j \in 1..Len(scoring.scores) :
              (ScoredKey(i) = ScoredKey(j)) <=> SameIdentity(ScoredVo(i), ScoredVo(j))
        /\ OneKeyPerCategory

\* C34, amended: two virtual objects with the same category and the same
\* signature are scored against the same history; two that are scored
\* against the same history have the same category and signature if
\* neither category contains ':'; and the excavator's value and array
\* virtual objects fall onto the keys 'value:{}' and 'struct:{}'.
C34_SameHistoryIffSameKeyString ==
    scoring.called =>
        /\ \A i, j \in 1..Len(scoring.scores) :
              /\ SameIdentity(ScoredVo(i), ScoredVo(j)) => ScoredKey(i) = ScoredKey(j)
              /\ (ScoredKey(i) = ScoredKey(j)
                    /\ ~HasColon(IdentityCategory(ScoredVo(i)))
                    /\ ~HasColon(IdentityCategory(ScoredVo(j))))
                 => SameIdentity(ScoredVo(i), ScoredVo(j))
        /\ OneKeyPerCategory

\* C34 witness: a number and a string virtual object of the excavator are
\* scored in one call by an engine that keeps observations: both under
\* 'value:{}', the second against the history the first has left.
C34_Witness ==
    /\ scoring.called
    /\ scoring.snapshot.result.virtualObjects = <<VoValueNumber, VoValueString>>
    /\ ScoredKey(1) = <<"value", ":", "{", "}">>
    /\ ScoredKey(2) = ScoredKey(1)
    /\ scoring.evals[1].history = <<>>
    /\ scoring.evals[2].history = <<scoring.evals[1].reading.update>>
    /\ scoring.scores[2].novelty = Frac(1, 1)

\* C34, the colliding pair: category 'a' with signature 'b:c' and category
\* 'a:b' with signature 'c' share one history
C34_WitnessCollision ==
    /\ scoring.called
    /\ scoring.snapshot.result.virtualObjects
         = <<VoColonInSignature, VoColonInCategory>>
    /\ ScoredKey(1) = ScoredKey(2)
    /\ scoring.evals[2].history = <<scoring.evals[1].reading.update>>

(***************************************************************************)
(* StreamGuard: claim C36.                                                 *)
(***************************************************************************)
\* the lines of a text that a line feed has ended, in order
RECURSIVE LinesFrom(_, _, _)
LinesFrom(text, start, i) ==
    IF i > Len(text) THEN <<>>
    ELSE IF text[i] = "\n"
         THEN <<SubSeq(text, start, i - 1)>> \o LinesFrom(text, i + 1, i + 1)
         ELSE LinesFrom(text, start, i + 1)

\* what a feed has delivered so far
Delivered(kind) == SubSeq(feeds[kind].data, 1, feeds[kind].read)

\* the values of the complete, non-empty, well-formed lines delivered by a
\* feed, in line order
RECURSIVE ValuesOf(_)
ValuesOf(lines) ==
    IF lines = <<>> THEN <<>>
    ELSE (IF Head(lines) # <<>> /\ JSONparseText(Head(lines)).ok
          THEN <<JSONparseText(Head(lines)).value>>
          ELSE <<>>) \o ValuesOf(Tail(lines))

WellFormedLines(kind) == ValuesOf(LinesFrom(Delivered(kind), 1, 1))

\* the emissions that came from one feed, in order
RECURSIVE EventsOf(_, _)
EventsOf(events, kind) ==
    IF events = <<>> THEN <<>>
    ELSE (IF Head(events).fields.kind = kind THEN <<Head(events)>> ELSE <<>>)
         \o EventsOf(Tail(events), kind)

\* the emissions of a feed are its well-formed lines, one each, in order,
\* under the feed's category
OneEventPerLine(kind) ==
    LET events == EventsOf(voEvents, kind)
        lines == WellFormedLines(kind)
    IN  /\ Len(events) = Len(lines)
        /\ \A i \in 1..Len(events) :
              /\ events[i].fields.raw = lines[i]
              /\ events[i].category =
                    (IF kind = "vision" THEN "vision-compliance"
                     ELSE "audio-compliance")

\* a step publishes the events it emits if the client is connected, and
\* nothing if it is not
PublishedIffConnected ==
    LET new == SubSeq(voEvents', Len(voEvents) + 1, Len(voEvents'))
    IN  /\ Len(voEvents') >= Len(voEvents)
        /\ published' =
             published \o (IF client # None /\ client[1].connected
                           THEN [i \in 1..Len(new) |-> JSONstringify(new[i])]
                           ELSE <<>>)

\* C36: for any chunking and interleaving of the two feeds, every
\* complete, non-empty, well-formed JSON line of a feed produces exactly
\* one 'vo-event' emission with that feed's category, in the line order of
\* the feed; a malformed line produces none and does not stop later lines;
\* the event is emitted whether or not MQTT is connected and published
\* only when it is.
C36_OneEventPerWellFormedLine ==
    /\ [](\A kind \in Kinds : OneEventPerLine(kind))
    /\ [][PublishedIffConnected]_vars

\* a feed has delivered a complete line that is the JSON text null
NullLineDelivered ==
    \E kind \in Kinds :
        \E i \in 1..Len(WellFormedLines(kind)) :
            WellFormedLines(kind)[i] = JNull

\* C36, what holds: until a line null is delivered, every feed has one
\* event per well-formed line, in order, and no data handler has thrown;
\* an exception leaves a data handler only for such a line; every step
\* publishes what it emits exactly if the client is connected.
C36_OneEventPerLineUntilNull ==
    /\ [](~NullLineDelivered =>
              /\ ~uncaught
              /\ \A kind \in Kinds : OneEventPerLine(kind))
    /\ [](uncaught => NullLineDelivered)
    /\ [][PublishedIffConnected]_vars

\* C36, the case that fails: the audio feed delivered "null" and its line
\* feed and then nothing more; the handler threw, no event was emitted for
\* the line, and the vision feed, which had emitted one event, is stopped
\* with well-formed lines unread.
C36_WitnessNullLine ==
    /\ uncaught
    /\ feeds["audio"].data = <<"n", "u", "l", "l", "\n", "1", "\n">>
    /\ feeds["audio"].read = 5
    /\ EventsOf(voEvents, "audio") = <<>>
    /\ feeds["vision"].data = <<"{", "}", "\n", "{", "\n", "1", "2", "\n">>
    /\ feeds["vision"].read = 3
    /\ Len(EventsOf(voEvents, "vision")) = 1

\* C36, the case that works: both feeds were read to the end in
\* interleaved chunks, with the malformed line "{", the empty line and the
\* line " { }\r" on the way; four events were emitted, the first of each
\* feed while the client was not connected, and two were published.
C36_WitnessInterleaved ==
    /\ ~uncaught
    /\ feeds["vision"].data = <<"{", "}", "\n", "{", "\n", "1", "2", "\n">>
    /\ feeds["audio"].data
         = <<"1", "\n", "\n", " ", "{", " ", "}", "\r", "\n", "2">>
    /\ feeds["vision"].read = 8
    /\ feeds["audio"].read = 10
    /\ feeds["audio"].buffer = <<"2">>
    /\ Len(voEvents) = 4
    /\ voEvents[1].fields.kind = "audio"
    /\ voEvents[2].fields.kind = "vision"
    /\ voEvents[3].fields.raw = JObj(<<>>)
    /\ voEvents[3].fields.kind = "audio"
    /\ voEvents[4].fields.raw = JNum(12)
    /\ Len(published) = 2
    /\ published[1] = JSONstringify(voEvents[3])

====
